---- MODULE Spec2Model ----
(***************************************************************************)
(* A state-machine model of the multiple hypothesis tracker (MHT) of       *)
(* mht.h / mdlmht.h / motionModel.cpp.                                     *)
(*                                                                         *)
(* The MHT object is the record-valued variable mht; its fields carry the  *)
(* names of the C++ members.  The heap of T_HYPO objects is mht.nodes (a   *)
(* function from node ids to node records); the LINKS_TO<> members are     *)
(* derived from it (a REPORT's m_tHypoLinks are the live nodes whose       *)
(* report field names it, a T_HYPO's m_gHypoLinks are the G_HYPOs whose    *)
(* link list holds it), which is what "links remove themselves from both   *)
(* sides" amounts to.                                                      *)
(*                                                                         *)
(* Numbers: log-likelihoods are integers (a fixed-point abstraction of the *)
(* doubles of the source); -INFINITY is NEG_INFINITY.  The Kalman filter   *)
(* of CONSTVEL_MDL is kept in its integer part: prediction x1 = x + ds*dx, *)
(* innovation v = z - H*x1, distance v'v (S taken as the identity), gain 1.*)
(***************************************************************************)
EXTENDS Integers, Sequences, FiniteSets, TLC

(***************************************************************************)
(* Bounds of the model.                                                    *)
(***************************************************************************)
MaxBatches == 3      \* number of addReports() calls explored
MaxIdleScans == 1    \* number of scan() calls on an empty queue explored

(***************************************************************************)
(* Program constants.                                                      *)
(***************************************************************************)
NEG_INFINITY == -1000000        \* -INFINITY
LOG_NORMFACTOR == 2             \* motionModel.cpp LOG_NORMFACTOR (1.5963597)
LOG_EPSILON == -12              \* log( EPSILON ), EPSILON = 1e-14
StartLogLikelihood == -3        \* m_startLogLikelihood = log( startProb )
SkipLogLikelihood == -4         \* m_skipLogLikelihood = log( 1 - detectProb )
DetectLogLikelihood == 0        \* m_detectLogLikelihood = log( detectProb )
FalarmLogLikelihood == -4       \* m_falarmLogLikelihood
MaxDistance == 2                \* m_maxDistance
IntensityThreshold == 50        \* m_intensityThreshold (percent)

(***************************************************************************)
(* Inputs: the detections a batch may hold, the batches addReports() may   *)
(* be given, and the constructor arguments.                                *)
(***************************************************************************)
Corner(x, y, tex) == [x |-> x, y |-> y, tex |-> tex]

Batches ==
  { <<>>,
    << Corner(0, 0, 0) >>,
    << Corner(1, 0, 0) >>,
    << Corner(4, 4, 0) >>,
    << Corner(0, 0, 0), Corner(1, 0, 0) >>,
    << Corner(1, 0, 1), Corner(4, 4, 0) >> }

TimeDeltas == {1}

CornerList(list, dT) == [list |-> list, m_dT |-> dT]

\* a likelihood ratio e^-k is written as its number k of e-folds
Ratio(k) == [efolds |-> k]
log(ratio) == -ratio.efolds

ConstructorArgs ==
  { [maxDepth |-> d, minGHypoRatio |-> Ratio(r), maxGHypos |-> k] :
      d \in {1, 2}, r \in {3}, k \in {1, 3} }
    \cup { [maxDepth |-> 2, minGHypoRatio |-> Ratio(20), maxGHypos |-> 5] }

VARIABLES
  args,       \* the arguments the MHT object was constructed with
  mht,        \* the MHT object (CORNER_TRACK_MHT)
  pc,         \* position inside scan(): "idle" between calls
  ret,        \* value returned by the last completed scan() call
  lastOp,     \* the call that produced this state
  added,      \* every batch passed to addReports(), in call order
  measured,   \* every batch handed to measureAndValidate(), in call order
  scanCalls,  \* number of calls made to scan()
  idleScans,  \* number of those calls that found the queue empty
  host        \* the command-line program around the MHT: main()

vars == <<args, mht, pc, ret, lastOp, added, measured, scanCalls, idleScans,
          host>>

(***************************************************************************)
(* Sequence helpers.                                                       *)
(***************************************************************************)
Range(s) == { s[i] : i \in 1..Len(s) }

RECURSIVE SeqFilter(_, _)
SeqFilter(s, keep) ==
  IF s = <<>> THEN <<>>
  ELSE IF Head(s) \in keep THEN <<Head(s)>> \o SeqFilter(Tail(s), keep)
       ELSE SeqFilter(Tail(s), keep)

\* a function as an explicit table, a sequence as an explicit tuple
Table(f) == f @@ <<>>
List(s) == <<>> \o s


(***************************************************************************)
(* CONSTVEL_STATE and CONSTVEL_MDL (motionModel.cpp).                      *)
(***************************************************************************)
NoState ==
  [ok |-> FALSE, x |-> 0, dx |-> 0, y |-> 0, dy |-> 0, tex |-> 0,
   ll |-> 0, numSkipped |-> 0, hasBeenSetup |-> FALSE, ds |-> 0,
   x1 |-> 0, dx1 |-> 0, y1 |-> 0, dy1 |-> 0]

\* new CONSTVEL_STATE( mdl, x, dx, y, dy, textureInfo, P, logLikelihood, numSkipped )
CONSTVEL_STATE(x, dx, y, dy, tex, ll, numSkipped) ==
  [ok |-> TRUE, x |-> x, dx |-> dx, y |-> y, dy |-> dy, tex |-> tex,
   ll |-> ll, numSkipped |-> numSkipped, hasBeenSetup |-> FALSE, ds |-> 0,
   x1 |-> 0, dx1 |-> 0, y1 |-> 0, dy1 |-> 0]

\* CONSTVEL_STATE::setup(): done at most once; m_ds = 1; m_x1 = F * m_x
setup(s) ==
  IF s.hasBeenSetup THEN s
  ELSE LET m_ds == 1 IN
       [s EXCEPT !.ds = m_ds,
                 !.x1 = s.x + m_ds * s.dx, !.dx1 = s.dx,
                 !.y1 = s.y + m_ds * s.dy, !.dy1 = s.dy,
                 !.hasBeenSetup = TRUE]

\* m_logLikelihoodCoef = -(LOG_NORMFACTOR + log( S.det() ) / 2), S = I
getLogLikelihoodCoef(s) == -(LOG_NORMFACTOR + 0)

\* CONSTVEL_MDL::getCorr(): best correlation (percent) of the report's
\* texture with the state's; equal textures correlate fully
getCorr(s, report) == IF s.tex = report.tex THEN 100 ELSE 0

\* log( 1 - exp( -m / lambda ) ), with EPSILON added to an exact zero
getEndLogLikelihood(s) ==
  IF s.numSkipped = 0 THEN LOG_EPSILON
  ELSE IF s.numSkipped = 1 THEN -1 ELSE 0

\* log( 1 - endProb )
getContinueLogLikelihood(s) ==
  IF s.numSkipped = 0 THEN 0 ELSE -s.numSkipped

getSkipLogLikelihood(s) == SkipLogLikelihood

getDetectLogLikelihood(s) == DetectLogLikelihood

\* CONSTVEL_MDL::beginNewStates(): always one candidate state
beginNewStates(s, report) == 1

\* CONSTVEL_MDL::getNextState(): [prev |-> the (possibly set up) previous
\* state, new |-> the next state, NoState when the report is gated out]
\* variant: a measurement is validated by its distance alone
getNextStateAnyTexture(s, hasState, report, hasReport) ==
  IF ~hasState THEN
    [prev |-> s,
     new |-> CONSTVEL_STATE(report.x, 0, report.y, 0, report.tex,
                            StartLogLikelihood, 0)]
  ELSE IF ~hasReport THEN
    LET p == setup(s) IN
    [prev |-> p,
     new |-> CONSTVEL_STATE(p.x1, p.dx1, p.y1, p.dy1, p.tex, 0,
                            p.numSkipped + 1)]
  ELSE
    LET p == setup(s)
        vx == report.x - p.x1
        vy == report.y - p.y1
        distance == vx * vx + vy * vy
    IN IF distance > MaxDistance THEN [prev |-> p, new |-> NoState]
       ELSE [prev |-> p,
             new |-> CONSTVEL_STATE(p.x1 + vx, p.dx1 + vx, p.y1 + vy,
                                    p.dy1 + vy, report.tex,
                                    getLogLikelihoodCoef(p) - (distance \div 2),
                                    0)]

getNextState(s, hasState, report, hasReport) ==
  IF ~hasState THEN
    [prev |-> s,
     new |-> CONSTVEL_STATE(report.x, 0, report.y, 0, report.tex,
                            StartLogLikelihood, 0)]
  ELSE IF ~hasReport THEN
    LET p == setup(s) IN
    [prev |-> p,
     new |-> CONSTVEL_STATE(p.x1, p.dx1, p.y1, p.dy1, p.tex, 0,
                            p.numSkipped + 1)]
  ELSE
    LET p == setup(s)
        vx == report.x - p.x1
        vy == report.y - p.y1
        distance == vx * vx + vy * vy
    IN IF distance > MaxDistance THEN [prev |-> p, new |-> NoState]
       ELSE IF ~(getCorr(p, report) > IntensityThreshold)
            THEN [prev |-> p, new |-> NoState]
       ELSE [prev |-> p,
             new |-> CONSTVEL_STATE(p.x1 + vx, p.dx1 + vx, p.y1 + vy,
                                    p.dy1 + vy, report.tex,
                                    getLogLikelihoodCoef(p) - (distance \div 2),
                                    0)]

\* CONSTVEL_MDL::getNewState(): stateNum 0 only; a state that has no
\* velocity yet takes the velocity the report implies before it is used
getNewState(stateNum, s, hasState, report, hasReport) ==
  LET s0 == IF hasState /\ hasReport /\ s.dx = 0 /\ s.dy = 0
            THEN [s EXCEPT !.dx = report.x - s.x, !.dy = report.y - s.y]
            ELSE s
  IN getNextState(s0, hasState, report, hasReport)

(***************************************************************************)
(* REPORT (mht.h) and CONSTPOS_REPORT.                                     *)
(***************************************************************************)
NoReport == 0

\* new CONSTPOS_REPORT( falarmLogLikelihood, x, y, textureInfo, ... );
\* REPORT(): m_rowNum( 0 ), m_groupId( 0 )
CONSTPOS_REPORT(id, corner, frame) ==
  [id |-> id, m_rowNum |-> 0, m_groupId |-> 0,
   x |-> corner.x, y |-> corner.y, tex |-> corner.tex,
   falarmLL |-> FalarmLogLikelihood, frame |-> frame]

\* MHT::installReport()
installReport(m, report) ==
  [m EXCEPT !.m_newReportList = Append(@, report)]

\* CORNER_TRACK_MHT::measure(): one report per corner of the batch
RECURSIVE measure(_, _)
measure(m, corners) ==
  IF corners = <<>> THEN m
  ELSE LET r == CONSTPOS_REPORT(m.nextReport, Head(corners), m.m_currentTime)
           m1 == installReport([m EXCEPT !.nextReport = @ + 1], r)
       IN measure(m1, Tail(corners))

(***************************************************************************)
(* T_HYPO and the seven MDL_*_T_HYPO node kinds (mht.h, mdlmht.h).         *)
(***************************************************************************)
NoNode == 0

\* T_HYPO(): m_tree( 0 ), m_timeStamp( 0 ), no links, flags 0
T_HYPO(kind, report, endsTrack, mustVerify, ll, state) ==
  [kind |-> kind, m_tree |-> -1, m_timeStamp |-> 0, parent |-> NoNode,
   kids |-> <<>>, report |-> report, m_endsTrack |-> endsTrack,
   m_mustVerify |-> mustVerify, m_logLikelihood |-> ll, m_state |-> state]

MDL_ROOT_T_HYPO == T_HYPO("ROOT", NoReport, 0, 0, 0, NoState)

\* variant: a DUMMY node that asks to be verified
MDL_DUMMY_T_HYPO_Verified(logLikelihood) ==
  T_HYPO("DUMMY", NoReport, 1, 1, logLikelihood, NoState)

\* variant: a DUMMY node that is less likely than its parent
MDL_DUMMY_T_HYPO_Decaying(logLikelihood) ==
  T_HYPO("DUMMY", NoReport, 1, 0, logLikelihood - 1, NoState)

MDL_DUMMY_T_HYPO(logLikelihood) ==
  T_HYPO("DUMMY", NoReport, 1, 0, logLikelihood, NoState)

MDL_FALARM_T_HYPO(report) ==
  T_HYPO("FALARM", report.id, 1, 1, report.falarmLL, NoState)

MDL_CONTINUE_T_HYPO(trackLL, continueLL, detectLL, state, report) ==
  T_HYPO("CONTINUE", report.id, 0, 1,
         trackLL + continueLL + detectLL + state.ll, state)

\* variant: a START node that does not ask to be verified
MDL_START_T_HYPO_Unverified(state, report) ==
  T_HYPO("START", report.id, 0, 0, state.ll, state)

MDL_START_T_HYPO(state, report) ==
  T_HYPO("START", report.id, 0, 1, state.ll, state)

\* variant: a SKIP node that leaves the skip likelihood out
MDL_SKIP_T_HYPO_Unskipped(trackLL, continueLL, skipLL, state) ==
  T_HYPO("SKIP", NoReport, 0, 1, trackLL + continueLL + state.ll, state)

MDL_SKIP_T_HYPO(trackLL, continueLL, skipLL, state) ==
  T_HYPO("SKIP", NoReport, 0, 1,
         trackLL + continueLL + skipLL + state.ll, state)

MDL_END_T_HYPO(trackLL, skipLL, endLL) ==
  T_HYPO("END", NoReport, 1, 1, trackLL + skipLL + endLL, NoState)

DummyKinds == {"DUMMY", "FALARM", "END"}
ContinueKinds == {"CONTINUE", "START", "SKIP"}

\* T_HYPO::hasReport()
hasReport(node) == node.report # NoReport

\* TREEnode::isLeaf(), hasOneChild()
isLeaf(node) == node.kids = <<>>
hasOneChild(node) == Len(node.kids) = 1

\* T_HYPO::installChild(): insertFirstChild, then
\* child->setStamps( m_tree, m_timeStamp + 1 )
\* variant: the child takes the time stamp of its parent
installChildOfSameTime(m, p, child) ==
  LET id == m.nextNode
      c == [child EXCEPT !.m_tree = m.nodes[p].m_tree,
                         !.m_timeStamp = m.nodes[p].m_timeStamp,
                         !.parent = p]
  IN [m EXCEPT !.nextNode = id + 1,
               !.nodes = [@ EXCEPT ![p].kids = <<id>> \o @] @@ (id :> c)]

installChild(m, p, child) ==
  LET id == m.nextNode
      c == [child EXCEPT !.m_tree = m.nodes[p].m_tree,
                         !.m_timeStamp = m.nodes[p].m_timeStamp + 1,
                         !.parent = p]
  IN [m EXCEPT !.nextNode = id + 1,
               !.nodes = [@ EXCEPT ![p].kids = <<id>> \o @] @@ (id :> c)]

\* MDL_ROOT_T_HYPO / MDL_DUMMY_T_HYPO / MDL_CONTINUE_T_HYPO ::makeDefaultChildren()
makeDefaultChildren(m, n) ==
  LET node == m.nodes[n] IN
  IF node.kind = "ROOT" THEN installChild(m, n, MDL_DUMMY_T_HYPO(0))
  ELSE IF node.kind \in DummyKinds
    THEN installChild(m, n, MDL_DUMMY_T_HYPO(node.m_logLikelihood))
  ELSE
    LET endLL == getEndLogLikelihood(node.m_state)
        continueLL == getContinueLogLikelihood(node.m_state)
        skipLL == getSkipLogLikelihood(node.m_state)
        m1 == IF endLL # NEG_INFINITY
              THEN installChild(m, n,
                     MDL_END_T_HYPO(node.m_logLikelihood, skipLL, endLL))
              ELSE m
    IN IF continueLL # NEG_INFINITY /\ beginNewStates(node.m_state, NoReport) > 0
       THEN LET r == getNewState(0, node.m_state, TRUE, NoState, FALSE)
                m2 == [m1 EXCEPT !.nodes[n].m_state = r.prev]
            IN IF r.new.ok
               THEN installChild(m2, n,
                      MDL_SKIP_T_HYPO(node.m_logLikelihood, continueLL,
                                      skipLL, r.new))
               ELSE m2
       ELSE m1

\* MDL_ROOT_T_HYPO / MDL_T_HYPO / MDL_CONTINUE_T_HYPO ::makeChildrenFor()
makeChildrenFor(m, n, report) ==
  LET node == m.nodes[n] IN
  IF node.kind = "ROOT" THEN
    LET m1 == installChild(m, n, MDL_FALARM_T_HYPO(report))
    IN IF beginNewStates(NoState, report) > 0
       THEN LET r == getNewState(0, NoState, FALSE, report, TRUE)
            IN IF r.new.ok
               THEN installChild(m1, n, MDL_START_T_HYPO(r.new, report))
               ELSE m1
       ELSE m1
  ELSE IF node.kind \in DummyKinds THEN m
  ELSE
    LET continueLL == getContinueLogLikelihood(node.m_state)
        detectLL == getDetectLogLikelihood(node.m_state)
    IN IF beginNewStates(node.m_state, report) > 0
       THEN LET r == getNewState(0, node.m_state, TRUE, report, TRUE)
                m1 == [m EXCEPT !.nodes[n].m_state = r.prev]
            IN IF r.new.ok
               THEN installChild(m1, n,
                      MDL_CONTINUE_T_HYPO(node.m_logLikelihood, continueLL,
                                          detectLL, r.new, report))
               ELSE m1
       ELSE m

(***************************************************************************)
(* T_TREE and MHT::installTree() (mht.h).                                  *)
(***************************************************************************)
\* T_TREE( root, id, time ): m_groupId( 0 )
T_TREE(root, id) == [root |-> root, m_id |-> id, m_groupId |-> 0]

\* variant: installTree() that does not advance m_lastTrackIdUsed
installTreeSameId(m, rootNode, timeOffset) ==
  LET id == m.nextNode
      tree == T_TREE(id, m.m_lastTrackIdUsed)
      root == [rootNode EXCEPT !.m_tree = tree.m_id,
                               !.m_timeStamp = m.m_currentTime + timeOffset]
  IN [m EXCEPT !.nextNode = id + 1,
               !.nodes = @ @@ (id :> root),
               !.m_activeTHypoList = Append(@, id),
               !.m_tTreeList = Append(@, tree),
               !.m_nextNewTTree = IF @ = 0 THEN Len(m.m_tTreeList) + 1 ELSE @]

\* MHT::installTree( rootNode, timeOffset )
installTree(m, rootNode, timeOffset) ==
  LET id == m.nextNode
      tree == T_TREE(id, m.m_lastTrackIdUsed)
      root == [rootNode EXCEPT !.m_tree = tree.m_id,
                               !.m_timeStamp = m.m_currentTime + timeOffset]
  IN [m EXCEPT !.nextNode = id + 1,
               !.nodes = @ @@ (id :> root),
               !.m_lastTrackIdUsed = @ + 1,
               !.m_activeTHypoList = Append(@, id),
               !.m_tTreeList = Append(@, tree),
               !.m_nextNewTTree = IF @ = 0 THEN Len(m.m_tTreeList) + 1 ELSE @]

(***************************************************************************)
(* MDL_MHT::measureAndValidate() (mdlmht.h).                               *)
(***************************************************************************)
RECURSIVE makeChildrenForAll(_, _, _)
makeChildrenForAll(m, n, reports) ==
  IF reports = <<>> THEN m
  ELSE makeChildrenForAll(makeChildrenFor(m, n, Head(reports)), n, Tail(reports))

\* variant: the active T_HYPOs get children for the reports only
RECURSIVE growActiveTHyposForReports(_, _)
growActiveTHyposForReports(m, active) ==
  IF active = <<>> THEN m
  ELSE growActiveTHyposForReports(
         makeChildrenForAll(m, Head(active), m.m_newReportList),
         Tail(active))

RECURSIVE growActiveTHypos(_, _)
growActiveTHypos(m, active) ==
  IF active = <<>> THEN m
  ELSE growActiveTHypos(
         makeChildrenForAll(makeDefaultChildren(m, Head(active)),
                            Head(active), m.m_newReportList),
         Tail(active))

RECURSIVE startNewTrees(_, _)
\* variant: a new tree for the first report only
startNewTreesOnce(m, reports) ==
  IF reports = <<>> THEN m
  ELSE makeChildrenFor(
         makeDefaultChildren(installTree(m, MDL_ROOT_T_HYPO, -1), m.nextNode),
         m.nextNode, Head(reports))

startNewTrees(m, reports) ==
  IF reports = <<>> THEN m
  ELSE LET root == m.nextNode
           m1 == installTree(m, MDL_ROOT_T_HYPO, -1)
           m2 == makeDefaultChildren(m1, root)
           m3 == makeChildrenFor(m2, root, Head(reports))
       IN startNewTrees(m3, Tail(reports))

measureAndValidate(m, newReports, deltaT) ==
  LET m1 == measure(m, newReports)
      m2 == growActiveTHypos(m1, m1.m_activeTHypoList)
  IN startNewTrees(m2, m2.m_newReportList)

(***************************************************************************)
(* Tree and link bookkeeping (tree.h, links.h: contracts only).            *)
(***************************************************************************)
RECURSIVE subtree(_, _)
subtree(nodes, n) ==
  {n} \cup UNION { subtree(nodes, k) : k \in Range(nodes[n].kids) }

\* LOOP_TREE: the nodes below and including n, parents first
RECURSIVE preOrder(_, _)
RECURSIVE preOrderAll(_, _)
preOrder(nodes, n) == <<n>> \o preOrderAll(nodes, nodes[n].kids)
preOrderAll(nodes, ks) ==
  IF ks = <<>> THEN <<>>
  ELSE preOrder(nodes, Head(ks)) \o preOrderAll(nodes, Tail(ks))

\* deleting T_HYPOs: they leave the tree, and every link to them goes
\* with them (the G_HYPOs' m_tHypoLinks shrink, the REPORTs lose a user)
deleteNodes(m, dead) ==
  LET live == DOMAIN m.nodes \ dead IN
  [m EXCEPT
     !.nodes = Table([n \in live |->
                  [m.nodes[n] EXCEPT
                     !.kids = SeqFilter(@, live),
                     !.parent = IF @ \in dead THEN NoNode ELSE @]]),
     !.m_tTreeList = List([i \in 1..Len(@) |->
                  [@[i] EXCEPT !.root = IF @ \in dead THEN NoNode ELSE @]]),
     !.m_groupList = List([i \in 1..Len(@) |->
                  [m_gHypoList |->
                     List([j \in 1..Len(@[i].m_gHypoList) |->
                        [@[i].m_gHypoList[j] EXCEPT
                           !.links = SeqFilter(@, live)]])]])]

\* PTR_INTO_iTREE_OF::removeSubtree()
removeSubtree(m, n) == deleteNodes(m, subtree(m.nodes, n))

\* iTREE_OF::removeRoot(): the root goes, its only child becomes the root
removeRoot(m, i) ==
  LET root == m.m_tTreeList[i].root
      kids == m.nodes[root].kids
      m1 == [m EXCEPT !.m_tTreeList[i].root =
                         IF kids = <<>> THEN NoNode ELSE kids[1],
                      !.fault = IF Len(kids) > 1 THEN "removeRoot" ELSE @]
  IN deleteNodes(m1, {root} \cup
                     UNION { subtree(m.nodes, kids[k]) : k \in 2..Len(kids) })

treeIndex(m, id) ==
  CHOOSE i \in 1..Len(m.m_tTreeList) : m.m_tTreeList[i].m_id = id

\* T_HYPO::getGroupId(): the group id of the node's tree
getGroupId(m, n) == m.m_tTreeList[treeIndex(m, m.nodes[n].m_tree)].m_groupId

\* REPORT::isInUse(): some T_HYPO is linked to the report
reportIsInUse(m, report) ==
  \E n \in DOMAIN m.nodes : m.nodes[n].report = report.id

\* T_HYPO::m_gHypoLinks is not empty
isPostulated(m, n) ==
  \E i \in 1..Len(m.m_groupList) :
    \E j \in 1..Len(m.m_groupList[i].m_gHypoList) :
      n \in Range(m.m_groupList[i].m_gHypoList[j].links)

\* variant: every T_HYPO counts as in use
tHypoIsInUseAlways(m, n) == TRUE

\* T_HYPO::isInUse()
tHypoIsInUse(m, n) == ~isLeaf(m.nodes[n]) \/ isPostulated(m, n)

\* variant: only the children of a ROOT name the row of their report
getRowNumOfNewTrack(m, n) ==
  IF m.nodes[n].kind \in {"START", "FALARM"}
  THEN LET i == CHOOSE i \in 1..Len(m.m_oldReportList) :
                  m.m_oldReportList[i].id = m.nodes[n].report
       IN m.m_oldReportList[i].m_rowNum
  ELSE -1

\* T_HYPO::getRowNum()
getRowNum(m, n) ==
  IF hasReport(m.nodes[n])
  THEN LET i == CHOOSE i \in 1..Len(m.m_oldReportList) :
                  m.m_oldReportList[i].id = m.nodes[n].report
       IN m.m_oldReportList[i].m_rowNum
  ELSE -1

(***************************************************************************)
(* G_HYPO and GROUP (mht.h).                                               *)
(***************************************************************************)
RECURSIVE sumLogLikelihood(_, _)
sumLogLikelihood(m, links) ==
  IF links = <<>> THEN 0
  ELSE m.nodes[Head(links)].m_logLikelihood + sumLogLikelihood(m, Tail(links))

\* G_HYPO() followed by addTHypo() for each link
G_HYPO(m, links) ==
  [m_logLikelihood |-> sumLogLikelihood(m, links),
   m_numTHyposUsedInProblem |-> 0,
   links |-> links]

\* GROUP( tree ): one G_HYPO that postulates the root
GROUP(m, tree) == [m_gHypoList |-> << G_HYPO(m, <<tree.root>>) >>]

\* GROUP::isInUse()
groupIsInUse(group) ==
  group.m_gHypoList # <<>> /\ group.m_gHypoList[1].links # <<>>

\* GROUP::getGroupId(): the group id of the first G_HYPO's first T_HYPO
groupGetGroupId(m, group) == getGroupId(m, group.m_gHypoList[1].links[1])

(***************************************************************************)
(* MHT::importNewReports(), makeNewGroups(), findGroupLabels() (mht.h).    *)
(***************************************************************************)
importNewReports(m) ==
  [m EXCEPT
     !.m_oldReportList =
        @ \o [i \in 1..Len(m.m_newReportList) |->
                [m.m_newReportList[i] EXCEPT !.m_rowNum = i - 1]],
     !.m_newReportList = <<>>]

makeNewGroups(m) ==
  IF m.m_nextNewTTree = 0 THEN m
  ELSE [m EXCEPT
          !.m_groupList =
             @ \o [k \in 1..(Len(m.m_tTreeList) - m.m_nextNewTTree + 1) |->
                     GROUP(m, m.m_tTreeList[m.m_nextNewTTree + k - 1])],
          !.m_nextNewTTree = 0]

\* the trees that use a report, and the reports a tree uses
treesOfReports(m, rs) ==
  { m.nodes[n].m_tree : n \in { k \in DOMAIN m.nodes : m.nodes[k].report \in rs } }
reportsOfTrees(m, ts) ==
  { m.nodes[n].report :
      n \in { k \in DOMAIN m.nodes :
                m.nodes[k].m_tree \in ts /\ m.nodes[k].report # NoReport } }

RECURSIVE sharingClosure(_, _)
sharingClosure(m, rs) ==
  LET rs2 == rs \cup reportsOfTrees(m, treesOfReports(m, rs))
  IN IF rs2 = rs THEN rs ELSE sharingClosure(m, rs2)

\* REPORT::setAllGroupIds(): the report, every tree that uses it, and
\* everything they share reports with, get the group id
setAllGroupIds(m, rid, groupId) ==
  LET rs == sharingClosure(m, {rid})
      ts == treesOfReports(m, rs)
  IN [m EXCEPT
        !.m_oldReportList = List([i \in 1..Len(@) |->
           IF @[i].id \in rs THEN [@[i] EXCEPT !.m_groupId = groupId] ELSE @[i]]),
        !.m_tTreeList = List([i \in 1..Len(@) |->
           IF @[i].m_id \in ts THEN [@[i] EXCEPT !.m_groupId = groupId] ELSE @[i]])]

RECURSIVE labelReports(_, _, _)
labelReports(m, i, groupId) ==
  IF i > Len(m.m_oldReportList) THEN [m |-> m, groupId |-> groupId]
  ELSE labelReports(setAllGroupIds(m, m.m_oldReportList[i].id, groupId),
                    i + 1, groupId + 1)

RECURSIVE labelLoneTrees(_, _, _)
labelLoneTrees(m, i, groupId) ==
  IF i > Len(m.m_tTreeList) THEN m
  ELSE IF m.m_tTreeList[i].m_groupId = -1
       THEN labelLoneTrees([m EXCEPT !.m_tTreeList[i].m_groupId = groupId],
                           i + 1, groupId + 1)
       ELSE labelLoneTrees(m, i + 1, groupId)

\* variant: the trees that use no report are left as they are
findGroupLabelsOfReports(m) ==
  LET m1 == [m EXCEPT !.m_tTreeList =
                List([i \in 1..Len(@) |-> [@[i] EXCEPT !.m_groupId = -1]])]
  IN labelReports(m1, 1, 1).m

findGroupLabels(m) ==
  LET m1 == [m EXCEPT !.m_tTreeList =
                List([i \in 1..Len(@) |-> [@[i] EXCEPT !.m_groupId = -1]])]
      r == labelReports(m1, 1, 1)
  IN labelLoneTrees(r.m, 1, r.groupId)

(***************************************************************************)
(* Ordering and capping of G_HYPO lists.                                   *)
(***************************************************************************)
\* the most likely of the G_HYPOs at the given positions of a list, the
\* first of them on a tie
mostLikely(gs, idxs) ==
  CHOOSE i \in idxs :
    \A j \in idxs :
      \/ gs[j].m_logLikelihood < gs[i].m_logLikelihood
      \/ (gs[j].m_logLikelihood = gs[i].m_logLikelihood /\ i <= j)

\* G_HYPOs in decreasing likelihood until ratio pruning (the next one is
\* below worst) or k-best pruning (no room left) stops them
RECURSIVE takeGHypos(_, _, _, _)
takeGHypos(gs, idxs, worst, room) ==
  IF idxs = {} \/ room <= 0 THEN <<>>
  ELSE LET i == mostLikely(gs, idxs)
       IN IF gs[i].m_logLikelihood < worst THEN <<>>
          ELSE <<gs[i]>> \o takeGHypos(gs, idxs \ {i}, worst, room - 1)

\* the most likely G_HYPO, then the others as ratio pruning and k-best
\* pruning allow
capGHypos(gs, idxs, logMinGHypoRatio, maxGHypos) ==
  IF idxs = {} THEN <<>>
  ELSE LET b == mostLikely(gs, idxs)
       IN <<gs[b]>> \o takeGHypos(gs, idxs \ {b},
                                  gs[b].m_logLikelihood + logMinGHypoRatio,
                                  maxGHypos - 1)

(***************************************************************************)
(* GROUP::splitIfYouMust() and GROUP::merge().                             *)
(***************************************************************************)
RECURSIVE distinctSeq(_, _)
distinctSeq(s, seen) ==
  IF s = <<>> THEN <<>>
  ELSE IF Head(s) \in seen THEN distinctSeq(Tail(s), seen)
       ELSE <<Head(s)>> \o distinctSeq(Tail(s), seen \cup {Head(s)})

\* the links of a G_HYPO that lie in trees with the given group id
RECURSIVE linksInGroup(_, _, _)
linksInGroup(m, links, groupId) ==
  IF links = <<>> THEN <<>>
  ELSE IF getGroupId(m, Head(links)) = groupId
       THEN <<Head(links)>> \o linksInGroup(m, Tail(links), groupId)
       ELSE linksInGroup(m, Tail(links), groupId)

\* GROUP::removeRepeats(): G_HYPOs that postulate the same T_HYPOs are one
RECURSIVE removeRepeats(_, _)
removeRepeats(gs, seen) ==
  IF gs = <<>> THEN <<>>
  ELSE IF Head(gs).links \in seen THEN removeRepeats(Tail(gs), seen)
       ELSE <<Head(gs)>> \o removeRepeats(Tail(gs), seen \cup {Head(gs).links})

\* GROUP::splitIfYouMust(): one group per group id found among the trees
\* of the group, each with the G_HYPOs restricted to its trees
splitIfYouMust(m, group) ==
  LET first == group.m_gHypoList[1].links
      ids == distinctSeq([k \in 1..Len(first) |-> getGroupId(m, first[k])], {})
  IN IF Len(ids) <= 1 THEN <<group>>
     ELSE List([k \in 1..Len(ids) |->
            [m_gHypoList |->
               removeRepeats(
                 List([j \in 1..Len(group.m_gHypoList) |->
                    G_HYPO(m, linksInGroup(m, group.m_gHypoList[j].links, ids[k]))]),
                 {})]])

\* GROUP::merge(): every pairing of a G_HYPO of this group with one of src,
\* most likely first, cut by ratio pruning and k-best pruning
groupMerge(m, group, src, logMinGHypoRatio, maxGHypos) ==
  LET n0 == Len(group.m_gHypoList)
      n1 == Len(src.m_gHypoList)
      pairs == List([k \in 1..(n0 * n1) |->
                  G_HYPO(m, group.m_gHypoList[((k - 1) \div n1) + 1].links \o
                            src.m_gHypoList[((k - 1) % n1) + 1].links)])
  IN [m_gHypoList |->
        capGHypos(pairs, 1..Len(pairs), logMinGHypoRatio, maxGHypos)]

(***************************************************************************)
(* MHT::splitGroups() and MHT::mergeGroups() (mht.h).                      *)
(***************************************************************************)
RECURSIVE splitEach(_, _)
splitEach(m, groups) ==
  IF groups = <<>> THEN <<>>
  ELSE splitIfYouMust(m, Head(groups)) \o splitEach(m, Tail(groups))

splitGroups(m) == [m EXCEPT !.m_groupList = splitEach(m, @)]

\* the inner loop: merge into group0 every later group with its id, and
\* remove that group from the list
\* variant: the GROUP after a removed one is passed over
RECURSIVE mergeIntoSkipping(_, _, _, _)
mergeIntoSkipping(m, group0, rest, kept) ==
  IF rest = <<>> THEN <<group0>> \o kept
  ELSE IF groupGetGroupId(m, Head(rest)) = groupGetGroupId(m, group0)
       THEN LET merged == groupMerge(m, group0, Head(rest),
                                     m.m_logMinGHypoRatio, m.m_maxGHypos)
            IN IF Tail(rest) = <<>> THEN <<merged>> \o kept
               ELSE mergeIntoSkipping(m, merged, Tail(Tail(rest)),
                                      Append(kept, Head(Tail(rest))))
       ELSE mergeIntoSkipping(m, group0, Tail(rest), Append(kept, Head(rest)))

RECURSIVE mergeInto(_, _, _, _)
mergeInto(m, group0, rest, kept) ==
  IF rest = <<>> THEN <<group0>> \o kept
  ELSE IF groupGetGroupId(m, Head(rest)) = groupGetGroupId(m, group0)
       THEN mergeInto(m,
                      groupMerge(m, group0, Head(rest),
                                 m.m_logMinGHypoRatio, m.m_maxGHypos),
                      Tail(rest), kept)
       ELSE mergeInto(m, group0, Tail(rest), Append(kept, Head(rest)))

RECURSIVE mergeFrom(_, _)
mergeFrom(m, groups) ==
  IF groups = <<>> THEN <<>>
  ELSE LET r == mergeInto(m, Head(groups), Tail(groups), <<>>)
       IN <<Head(r)>> \o mergeFrom(m, Tail(r))

\* variant: nothing is merged
mergeGroupsNever(m) == m

mergeGroups(m) == [m EXCEPT !.m_groupList = mergeFrom(m, @)]

(***************************************************************************)
(* G_HYPO::makeProblem(), the assignment enumerator, nScanBackPrune() and  *)
(* GROUP::pruneAndHypothesize().                                           *)
(***************************************************************************)
\* the report rows of an assignment problem: the rows of the children of
\* the postulated T_HYPOs
problemRows(m, links) ==
  { getRowNum(m, c) :
      c \in UNION { Range(m.nodes[links[k]].kids) : k \in 1..Len(links) } }
    \ {-1}

\* the solutions of one G_HYPO's assignment problem: one child of each
\* postulated T_HYPO, every report row taken by exactly one of them
RECURSIVE solutions(_, _, _, _)
RECURSIVE solutionsVia(_, _, _, _, _)
solutions(m, links, usedRows, rows) ==
  IF links = <<>> THEN (IF usedRows = rows THEN << <<>> >> ELSE <<>>)
  ELSE solutionsVia(m, m.nodes[Head(links)].kids, Tail(links), usedRows, rows)
solutionsVia(m, kids, links, usedRows, rows) ==
  IF kids = <<>> THEN <<>>
  ELSE LET c == Head(kids)
           row == getRowNum(m, c)
           here == IF row >= 0 /\ row \in usedRows THEN <<>>
                   ELSE LET rest == solutions(m, links,
                                      IF row >= 0 THEN usedRows \cup {row}
                                      ELSE usedRows, rows)
                        IN List([k \in 1..Len(rest) |-> <<c>> \o rest[k]])
       IN here \o solutionsVia(m, Tail(kids), links, usedRows, rows)

\* G_HYPO::makeProblem() for the k-th old G_HYPO: its solutions as
\* candidate new G_HYPOs
makeProblem(m, gHypo, k) ==
  LET sols == solutions(m, gHypo.links, {}, problemRows(m, gHypo.links))
  IN [j \in 1..Len(sols) |->
        [m_logLikelihood |-> sumLogLikelihood(m, sols[j]),
         m_numTHyposUsedInProblem |-> 0,
         links |-> sols[j], problem |-> k]]

RECURSIVE makeProblems(_, _, _)
makeProblems(m, gHypos, k) ==
  IF k > Len(gHypos) THEN <<>>
  ELSE makeProblem(m, gHypos[k], k) \o makeProblems(m, gHypos, k + 1)

\* the child of the root that leads to n
RECURSIVE rootChildAbove(_, _, _)
rootChildAbove(nodes, root, n) ==
  IF nodes[n].parent = root THEN n ELSE rootChildAbove(nodes, root, nodes[n].parent)

RECURSIVE subtrees(_, _)
subtrees(nodes, ks) ==
  IF ks = <<>> THEN {} ELSE subtree(nodes, Head(ks)) \cup subtrees(nodes, Tail(ks))

\* G_HYPO::nScanBackPrune(): in every tree of the G_HYPO that is deeper
\* than maxDepth, the root keeps only the child that leads to the leaf
\* the G_HYPO postulates
RECURSIVE nScanBackPrune(_, _, _)
nScanBackPrune(m, links, maxDepth) ==
  IF links = <<>> THEN m
  ELSE LET leaf == Head(links)
           root == m.m_tTreeList[treeIndex(m, m.nodes[leaf].m_tree)].root
           depth == m.nodes[leaf].m_timeStamp - m.nodes[root].m_timeStamp
           m1 == IF depth > maxDepth
                 THEN LET keep == rootChildAbove(m.nodes, root, leaf)
                      IN deleteNodes(m, subtrees(m.nodes,
                           SeqFilter(m.nodes[root].kids,
                                     Range(m.nodes[root].kids) \ {keep})))
                 ELSE m
       IN nScanBackPrune(m1, Tail(links), maxDepth)

\* G_HYPO::setNumtHypos()
setNumtHypos(gHypo) ==
  [gHypo EXCEPT !.m_numTHyposUsedInProblem = Len(gHypo.links)]

\* G_HYPO::wasReduced()
wasReduced(gHypo) == gHypo.m_numTHyposUsedInProblem > Len(gHypo.links)

\* GROUP::pruneAndHypothesize() for the i-th group of the list
groupPruneAndHypothesize(m, i, maxDepth, logMinGHypoRatio, maxGHypos) ==
  LET m0 == [m EXCEPT !.m_groupList[i].m_gHypoList =
                List([j \in 1..Len(@) |-> setNumtHypos(@[j])])]
      old == m0.m_groupList[i].m_gHypoList
      cands == makeProblems(m0, old, 1)
      b == mostLikely(cands, 1..Len(cands))
      m1 == nScanBackPrune(m0, cands[b].links, maxDepth)
      after == m1.m_groupList[i].m_gHypoList
      valid == { k \in 1..Len(after) : ~wasReduced(after[k]) }
      rest == { k \in (1..Len(cands)) \ {b} :
                  /\ cands[k].problem \in valid
                  /\ Range(cands[k].links) \subseteq DOMAIN m1.nodes }
      new == <<cands[b]>> \o
             takeGHypos(cands, rest,
                        cands[b].m_logLikelihood + logMinGHypoRatio,
                        maxGHypos - 1)
  IN [m1 EXCEPT !.m_groupList[i].m_gHypoList =
        List([j \in 1..Len(new) |-> G_HYPO(m1, new[j].links)])]

(***************************************************************************)
(* MHT::pruneAndHypothesize() and the reclaiming steps of scan() (mht.h).  *)
(***************************************************************************)
RECURSIVE pruneAndHypothesizeFrom(_, _)
pruneAndHypothesizeFrom(m, i) ==
  IF i > Len(m.m_groupList) THEN m
  ELSE pruneAndHypothesizeFrom(
         groupPruneAndHypothesize(m, i, m.m_maxDepth, m.m_logMinGHypoRatio,
                                  m.m_maxGHypos),
         i + 1)

\* variants: the groups are given a larger depth, a larger number of
\* G_HYPOs, a smaller ratio than the MHT was constructed with
pruneAndHypothesizeDeeper(m) ==
  [pruneAndHypothesizeFrom([m EXCEPT !.m_maxDepth = @ + 1], 1)
     EXCEPT !.m_maxDepth = m.m_maxDepth]

pruneAndHypothesizeMore(m) ==
  [pruneAndHypothesizeFrom([m EXCEPT !.m_maxGHypos = @ + 2], 1)
     EXCEPT !.m_maxGHypos = m.m_maxGHypos]

pruneAndHypothesizeLooser(m) ==
  [pruneAndHypothesizeFrom([m EXCEPT !.m_logMinGHypoRatio = @ - 10], 1)
     EXCEPT !.m_logMinGHypoRatio = m.m_logMinGHypoRatio]

\* variant: the groups prune their trees two scans later
pruneAndHypothesizeLate(m) ==
  [pruneAndHypothesizeFrom([m EXCEPT !.m_maxDepth = @ + 2], 1)
     EXCEPT !.m_maxDepth = m.m_maxDepth]

pruneAndHypothesize(m) == pruneAndHypothesizeFrom(m, 1)

\* LOOP_TREEpostOrder: children first; a node not in use goes
RECURSIVE removeUnusedBelow(_, _)
RECURSIVE removeUnusedAmong(_, _)
removeUnusedBelow(m, n) ==
  LET m1 == removeUnusedAmong(m, m.nodes[n].kids)
  IN IF tHypoIsInUse(m1, n) THEN m1 ELSE removeSubtree(m1, n)
removeUnusedAmong(m, ks) ==
  IF ks = <<>> THEN m
  ELSE removeUnusedAmong(removeUnusedBelow(m, Head(ks)), Tail(ks))

RECURSIVE removeUnusedTHyposFrom(_, _)
removeUnusedTHyposFrom(m, i) ==
  IF i > Len(m.m_tTreeList) THEN m
  ELSE IF m.m_tTreeList[i].root = NoNode THEN removeUnusedTHyposFrom(m, i + 1)
  ELSE removeUnusedTHyposFrom(removeUnusedBelow(m, m.m_tTreeList[i].root), i + 1)

removeUnusedTHypos(m) == removeUnusedTHyposFrom(m, 1)

\* the verify() of each node kind: the callback it makes on the MDL_MHT
verify(m, n) ==
  LET node == m.nodes[n]
      what == CASE node.kind = "START" -> "startTrack"
                [] node.kind = "CONTINUE" -> "continueTrack"
                [] node.kind = "SKIP" -> "skipTrack"
                [] node.kind = "END" -> "endTrack"
                [] node.kind = "FALARM" -> "falseAlarm"
                [] OTHER -> "assert"
  IN [m EXCEPT !.events = Append(@,
        [what |-> what, node |-> n, id |-> node.m_tree,
         t |-> node.m_timeStamp, report |-> node.report,
         now |-> m.m_currentTime, kind |-> node.kind,
         mustVerify |-> node.m_mustVerify, kids |-> node.kids])]

\* the while loop of verifyTTreeRoots() for the i-th tree
RECURSIVE popRoots(_, _)
\* variant: at most one root is taken off
popRootsOnce(m, i) ==
  LET root == m.m_tTreeList[i].root IN
  IF hasOneChild(m.nodes[root]) /\ m.nodes[root].m_endsTrack = 0
  THEN removeRoot(IF m.nodes[root].m_mustVerify = 1
                  THEN verify(m, root) ELSE m, i)
  ELSE m

\* variant: a SKIP root is taken off without being verified
popRootsUnskipped(m, i) ==
  LET root == m.m_tTreeList[i].root IN
  IF hasOneChild(m.nodes[root]) /\ m.nodes[root].m_endsTrack = 0
  THEN popRoots(removeRoot(IF m.nodes[root].m_mustVerify = 1
                              /\ m.nodes[root].kind # "SKIP"
                           THEN verify(m, root) ELSE m, i), i)
  ELSE m

popRoots(m, i) ==
  LET root == m.m_tTreeList[i].root IN
  IF hasOneChild(m.nodes[root]) /\ m.nodes[root].m_endsTrack = 0
  THEN popRoots(removeRoot(IF m.nodes[root].m_mustVerify = 1
                           THEN verify(m, root) ELSE m, i), i)
  ELSE m

RECURSIVE verifyTTreeRootsFrom(_, _)
verifyTTreeRootsFrom(m, i) ==
  IF i > Len(m.m_tTreeList) THEN m
  ELSE IF m.m_tTreeList[i].root = NoNode THEN verifyTTreeRootsFrom(m, i + 1)
  ELSE LET m1 == popRoots(m, i)
           root == m1.m_tTreeList[i].root
           m2 == IF m1.nodes[root].m_endsTrack = 1 /\ m1.nodes[root].m_mustVerify = 1
                 THEN verify(m1, root) ELSE m1
       IN verifyTTreeRootsFrom(m2, i + 1)

verifyTTreeRoots(m) == verifyTTreeRootsFrom(m, 1)

RECURSIVE verifyLastTTreeRootsFrom(_, _)
verifyLastTTreeRootsFrom(m, i) ==
  IF i > Len(m.m_tTreeList) THEN m
  ELSE IF m.m_tTreeList[i].root = NoNode THEN verifyLastTTreeRootsFrom(m, i + 1)
  ELSE LET root == m.m_tTreeList[i].root
           m1 == IF m.nodes[root].m_mustVerify = 1 THEN verify(m, root) ELSE m
       IN verifyLastTTreeRootsFrom(removeRoot(m1, i), i + 1)

verifyLastTTreeRoots(m) == verifyLastTTreeRootsFrom(m, 1)

\* variant: a tree is kept even when its root ends the track
treeIsInUseThoughEnded(m, tree) == tree.root # NoNode

\* variant: a tree is of use only while a leaf of it goes on
treeIsInUseWhileGrowing(m, tree) ==
  /\ tree.root # NoNode
  /\ m.nodes[tree.root].m_endsTrack = 0
  /\ \E n \in subtree(m.nodes, tree.root) :
       isLeaf(m.nodes[n]) /\ m.nodes[n].m_endsTrack = 0

\* the test of removeUnusedTTrees(): is the tree still of use
treeIsInUse(m, tree) ==
  /\ tree.root # NoNode
  /\ m.nodes[tree.root].m_endsTrack = 0
  /\ \E n \in subtree(m.nodes, tree.root) :
       \/ m.nodes[n].m_mustVerify = 1
       \/ (isLeaf(m.nodes[n]) /\ m.nodes[n].m_endsTrack = 0)

\* variant: every tree stays on the tree list
removeUnusedTTreesNever(m) == m

removeUnusedTTrees(m) ==
  LET gone == { i \in 1..Len(m.m_tTreeList) : ~treeIsInUse(m, m.m_tTreeList[i]) }
      dead == UNION { IF m.m_tTreeList[i].root = NoNode THEN {}
                      ELSE subtree(m.nodes, m.m_tTreeList[i].root) : i \in gone }
      m1 == deleteNodes(m, dead)
  IN [m1 EXCEPT !.m_tTreeList =
        SeqFilter(@, { m1.m_tTreeList[i] : i \in (1..Len(@)) \ gone })]

\* variant: no report is ever taken off m_oldReportList
removeUnusedReportsNever(m) == m

removeUnusedReports(m) ==
  [m EXCEPT !.m_oldReportList =
     SeqFilter(@, { r \in Range(@) : reportIsInUse(m, r) })]

removeUnusedGroups(m) ==
  [m EXCEPT !.m_groupList = SeqFilter(@, { g \in Range(@) : groupIsInUse(g) })]

\* variant: every node of the tree, leaf or not
everyNodeOf(nodes, order) == order

RECURSIVE leavesOf(_, _)
leavesOf(nodes, order) ==
  IF order = <<>> THEN <<>>
  ELSE IF isLeaf(nodes[Head(order)])
       THEN <<Head(order)>> \o leavesOf(nodes, Tail(order))
       ELSE leavesOf(nodes, Tail(order))

RECURSIVE updateActiveTHypoListFrom(_, _)
updateActiveTHypoListFrom(m, i) ==
  IF i > Len(m.m_tTreeList) THEN m
  ELSE IF m.m_tTreeList[i].root = NoNode THEN updateActiveTHypoListFrom(m, i + 1)
  ELSE updateActiveTHypoListFrom(
         [m EXCEPT !.m_activeTHypoList =
            @ \o leavesOf(m.nodes, preOrder(m.nodes, m.m_tTreeList[i].root))],
         i + 1)

updateActiveTHypoList(m) == updateActiveTHypoListFrom(m, 1)

(***************************************************************************)
(* The public operations of MHT (mht.h): constructor, addReports(),        *)
(* scan(), clear(), getCurrentTime().                                      *)
(***************************************************************************)
\* MHT( maxDepth, minGHypoRatio, maxGHypos )
MHT(maxDepth, minGHypoRatio, maxGHypos) ==
  [m_lastTrackIdUsed |-> 0,
   m_currentTime |-> 0,
   m_maxDepth |-> maxDepth,
   m_logMinGHypoRatio |-> log(minGHypoRatio),
   m_maxGHypos |-> maxGHypos,
   m_tTreeList |-> <<>>,
   m_nextNewTTree |-> 0,
   m_groupList |-> <<>>,
   m_oldReportList |-> <<>>,
   m_newReportList |-> <<>>,
   m_activeTHypoList |-> <<>>,
   m_reportsQueue |-> <<>>,
   m_isFirstScan |-> TRUE,
   nodes |-> <<>>,
   nextNode |-> 1,
   nextReport |-> 1,
   events |-> <<>>,
   fault |-> "none"]

\* MHT::isInUse()
isInUse(m) == m.m_tTreeList # <<>>

getCurrentTime(m) == m.m_currentTime

\* std::queue: push(), front(), pop()
push(q, e) == Append(q, e)
\* variant: the newest element instead of the oldest
frontIsBack(q) == q[Len(q)]

front(q) == Head(q)
pop(q) == Tail(q)

addReports(m, newReports) ==
  [m EXCEPT !.m_reportsQueue = push(@, newReports)]

\* variant: a batch without detections does not count
scanMeasureOfDetections(m) ==
  IF m.m_reportsQueue = <<>>
  THEN [m |-> m, returned |-> TRUE, ret |-> 0, batch |-> <<>>]
  ELSE LET newReports == front(m.m_reportsQueue)
           m1 == [m EXCEPT !.m_reportsQueue = pop(@)]
           m2 == measureAndValidate(m1, newReports.list, newReports.m_dT)
       IN [m |-> [m2 EXCEPT !.m_currentTime =
                     IF newReports.list = <<>> THEN @ ELSE @ + 1],
           returned |-> FALSE, ret |-> 0, batch |-> <<newReports>>]

\* variant: the time is incremented before the queue is looked at
scanMeasureCountsFirst(m) ==
  IF m.m_reportsQueue = <<>>
  THEN [m |-> [m EXCEPT !.m_currentTime = @ + 1],
        returned |-> TRUE, ret |-> 0, batch |-> <<>>]
  ELSE LET newReports == front(m.m_reportsQueue)
           m1 == [m EXCEPT !.m_reportsQueue = pop(@)]
           m2 == measureAndValidate(m1, newReports.list, newReports.m_dT)
       IN [m |-> [m2 EXCEPT !.m_currentTime = @ + 1],
           returned |-> FALSE, ret |-> 0, batch |-> <<newReports>>]

\* scan() up to and including m_currentTime++: [m |-> the object,
\* returned |-> did scan() return here, ret |-> the value it returned,
\* batch |-> what went to measureAndValidate()]
scanMeasure(m) ==
  IF m.m_reportsQueue = <<>>
  THEN [m |-> m, returned |-> TRUE, ret |-> 0, batch |-> <<>>]
  ELSE LET newReports == front(m.m_reportsQueue)
           m1 == [m EXCEPT !.m_reportsQueue = pop(@)]
           m2 == measureAndValidate(m1, newReports.list, newReports.m_dT)
       IN [m |-> [m2 EXCEPT !.m_currentTime = @ + 1],
           returned |-> FALSE, ret |-> 0, batch |-> <<newReports>>]

\* scan() from m_activeTHypoList.removeAll() to mergeGroups()
scanGroup(m) ==
  LET m1 == importNewReports([m EXCEPT !.m_activeTHypoList = <<>>])
  IN IF m1.m_tTreeList = <<>>
     THEN [m |-> m1, returned |-> TRUE, ret |-> 0]
     ELSE [m |-> mergeGroups(splitGroups(findGroupLabels(makeNewGroups(m1)))),
           returned |-> FALSE, ret |-> 0]

\* scan() from removeUnusedTHypos() to its return
\* variant: the first-scan flag is left as it is
scanReclaimFirstForever(m) ==
  LET m1 == verifyTTreeRoots(removeUnusedTHypos(m))
      m2 == removeUnusedGroups(removeUnusedReports(removeUnusedTTrees(m1)))
  IN [m |-> updateActiveTHypoList(m2), returned |-> TRUE, ret |-> 1]

scanReclaim(m) ==
  LET m1 == verifyTTreeRoots(removeUnusedTHypos(m))
      m2 == removeUnusedGroups(removeUnusedReports(removeUnusedTTrees(m1)))
      m3 == updateActiveTHypoList(m2)
  IN [m |-> [m3 EXCEPT !.m_isFirstScan = FALSE], returned |-> TRUE, ret |-> 1]

\* GROUP::clear( maxDepth ): N-scanback pruning by the first G_HYPO
RECURSIVE clearGroups(_, _, _)
clearGroups(m, i, maxDepth) ==
  IF i > Len(m.m_groupList) THEN m
  ELSE IF m.m_groupList[i].m_gHypoList = <<>>
       THEN clearGroups(m, i + 1, maxDepth)
       ELSE clearGroups(
              nScanBackPrune(m, m.m_groupList[i].m_gHypoList[1].links, maxDepth),
              i + 1, maxDepth)

\* variant: one pass at depth i only, no descent to depth 0
clearFromOnce(m, i) ==
  IF i < 0 THEN m
  ELSE LET m1 == verifyTTreeRoots(clearGroups(m, 1, i))
       IN removeUnusedGroups(removeUnusedReports(removeUnusedTTrees(m1)))

RECURSIVE clearFrom(_, _)
clearFrom(m, i) ==
  IF i < 0 THEN m
  ELSE LET m1 == verifyTTreeRoots(clearGroups(m, 1, i))
           m2 == removeUnusedGroups(removeUnusedReports(removeUnusedTTrees(m1)))
       IN clearFrom(m2, i - 1)

\* variant: clear() without the final verifyLastTTreeRoots()
clearWithoutLastRoots(m) == clearFrom(m, m.m_maxDepth)

clear(m) == verifyLastTTreeRoots(clearFrom(m, m.m_maxDepth))

(***************************************************************************)
(* The state machine: a host that calls addReports(), scan() and, last,    *)
(* clear() (trackCorners main()).  A scan() call passes through up to four *)
(* steps; the host makes no other call until it has returned.              *)
(***************************************************************************)
\* main() before its first statement: the command line it was given and
\* the files it will find
HostOptions == {"ok", "help", "syntax", "unknown", "missing"}

HostStart(argv, files) ==
  [pc |-> "options", argv |-> argv, files |-> files, engine |-> "none",
   exit |-> "running"]

HostStarts ==
  { HostStart(argv, files) :
      argv \in [opt : HostOptions, output : BOOLEAN, input : BOOLEAN,
                param : BOOLEAN, dir : BOOLEAN],
      files \in [param : BOOLEAN, control : BOOLEAN, frame : BOOLEAN,
                 output : BOOLEAN] }

\* the host as the engine-only specifications see it
HostIdle ==
  HostStart([opt |-> "ok", output |-> TRUE, input |-> TRUE, param |-> TRUE,
             dir |-> TRUE],
            [param |-> TRUE, control |-> TRUE, frame |-> TRUE, output |-> TRUE])

Init ==
  /\ host = HostIdle
  /\ args \in ConstructorArgs
  /\ mht = MHT(args.maxDepth, args.minGHypoRatio, args.maxGHypos)
  /\ pc = "idle"
  /\ ret = 0
  /\ lastOp = "new"
  /\ added = <<>>
  /\ measured = <<>>
  /\ scanCalls = 0
  /\ idleScans = 0

AddReports ==
  /\ pc = "idle"
  /\ Len(added) < MaxBatches
  /\ \E list \in Batches, dT \in TimeDeltas :
       /\ mht' = addReports(mht, CornerList(list, dT))
       /\ added' = Append(added, CornerList(list, dT))
  /\ lastOp' = "addReports"
  /\ UNCHANGED <<host, args, pc, ret, measured, scanCalls, idleScans>>

ScanMeasure ==
  /\ pc = "idle"
  /\ mht.m_reportsQueue = <<>> => idleScans < MaxIdleScans
  /\ LET r == scanMeasure(mht) IN
       /\ mht' = r.m
       /\ measured' = measured \o r.batch
       /\ pc' = IF r.returned THEN "idle" ELSE "measured"
       /\ ret' = IF r.returned THEN r.ret ELSE ret
       /\ idleScans' = IF r.returned THEN idleScans + 1 ELSE idleScans
  /\ scanCalls' = scanCalls + 1
  /\ lastOp' = "scan"
  /\ UNCHANGED <<host, args, added>>

ScanGroup ==
  /\ pc = "measured"
  /\ LET r == scanGroup(mht) IN
       /\ mht' = r.m
       /\ pc' = IF r.returned THEN "idle" ELSE "grouped"
       /\ ret' = IF r.returned THEN r.ret ELSE ret
  /\ UNCHANGED <<host, args, lastOp, added, measured, scanCalls, idleScans>>

ScanHypothesize ==
  /\ pc = "grouped"
  /\ mht' = pruneAndHypothesize(mht)
  /\ pc' = "hypothesized"
  /\ UNCHANGED <<host, args, ret, lastOp, added, measured, scanCalls, idleScans>>

ScanReclaim ==
  /\ pc = "hypothesized"
  /\ LET r == scanReclaim(mht) IN
       /\ mht' = r.m
       /\ ret' = r.ret
  /\ pc' = "idle"
  /\ UNCHANGED <<host, args, lastOp, added, measured, scanCalls, idleScans>>

Clear ==
  /\ pc = "idle"
  /\ mht.m_reportsQueue = <<>>
  /\ mht' = clear(mht)
  /\ pc' = "done"
  /\ lastOp' = "clear"
  /\ UNCHANGED <<host, args, ret, added, measured, scanCalls, idleScans>>

Next ==
  \/ AddReports
  \/ ScanMeasure
  \/ ScanGroup
  \/ ScanHypothesize
  \/ ScanReclaim
  \/ Clear

Spec == Init /\ [][Next]_vars

\* the same host, giving addReports() batches that come after intervals of
\* different lengths
TimedDeltas == {1, 2}

TimedBatches == { << Corner(0, 0, 0) >>, << Corner(1, 0, 0) >> }

AddTimedReports ==
  /\ pc = "idle"
  /\ Len(added) < MaxBatches
  /\ \E list \in TimedBatches, dT \in TimedDeltas :
       /\ mht' = addReports(mht, CornerList(list, dT))
       /\ added' = Append(added, CornerList(list, dT))
  /\ lastOp' = "addReports"
  /\ UNCHANGED <<host, args, pc, ret, measured, scanCalls, idleScans>>

NextTimed ==
  \/ AddTimedReports
  \/ ScanMeasure
  \/ ScanGroup
  \/ ScanHypothesize
  \/ ScanReclaim
  \/ Clear

SpecTimed == Init /\ [][NextTimed]_vars

(***************************************************************************)
(* The command-line program (trackCorners main()).  argv.opt is what the   *)
(* getopt loop meets; argv.output, input, param, dir say whether the name  *)
(* is not empty; files say which files can be opened.  A return of main()  *)
(* is an exit with its value, written "0", "1", "-1"; a std::runtime_error *)
(* nobody catches ends the program through std::terminate(): "abort".      *)
(***************************************************************************)
return(h, code) == [h EXCEPT !.pc = "exited", !.exit = code]
throw(h) == [h EXCEPT !.pc = "exited", !.exit = "abort"]

\* main(): the getopt_long() loop and the checks of the names
parseOptions(h) ==
  IF h.argv.opt \in {"syntax", "help"} THEN return(h, "1")
  ELSE IF h.argv.opt \in {"unknown", "missing"} THEN return(h, "-1")
  ELSE IF ~h.argv.output THEN return(h, "-1")
  ELSE IF ~h.argv.input THEN return(h, "-1")
  ELSE IF ~h.argv.param THEN return(h, "-1")
  ELSE IF ~h.argv.dir THEN return(h, "-1")
  ELSE [h EXCEPT !.pc = "param"]

\* read_param()
read_param(h) ==
  IF ~h.files.param THEN throw(h) ELSE [h EXCEPT !.pc = "corners"]

\* readCorners(): the control file, then the file of each frame
readCorners(h) ==
  IF ~h.files.control THEN throw(h)
  ELSE IF ~h.files.frame THEN throw(h)
  ELSE [h EXCEPT !.pc = "track"]

\* main(): the model and the CORNER_TRACK_MHT are made, the frames are
\* added and scanned, clear() is called
track(h) == [h EXCEPT !.pc = "write", !.engine = "cleared"]

\* writeCornerTrackFile(), and the return of main()
writeAndReturn(h) ==
  IF ~h.files.output THEN throw(h) ELSE return(h, "0")

InitHost ==
  /\ host \in HostStarts
  /\ args \in ConstructorArgs
  /\ mht = MHT(args.maxDepth, args.minGHypoRatio, args.maxGHypos)
  /\ pc = "idle"
  /\ ret = 0
  /\ lastOp = "new"
  /\ added = <<>>
  /\ measured = <<>>
  /\ scanCalls = 0
  /\ idleScans = 0

HostParseOptions ==
  /\ host.pc = "options"
  /\ host' = parseOptions(host)
  /\ UNCHANGED <<args, mht, pc, ret, lastOp, added, measured,
               scanCalls, idleScans>>

HostReadParam ==
  /\ host.pc = "param"
  /\ host' = read_param(host)
  /\ UNCHANGED <<args, mht, pc, ret, lastOp, added, measured,
               scanCalls, idleScans>>

HostReadCorners ==
  /\ host.pc = "corners"
  /\ host' = readCorners(host)
  /\ UNCHANGED <<args, mht, pc, ret, lastOp, added, measured,
               scanCalls, idleScans>>

HostTrack ==
  /\ host.pc = "track"
  /\ host' = track(host)
  /\ UNCHANGED <<args, mht, pc, ret, lastOp, added, measured,
               scanCalls, idleScans>>

HostWrite ==
  /\ host.pc = "write"
  /\ host' = writeAndReturn(host)
  /\ UNCHANGED <<args, mht, pc, ret, lastOp, added, measured,
               scanCalls, idleScans>>

NextHost ==
  \/ HostParseOptions
  \/ HostReadParam
  \/ HostReadCorners
  \/ HostTrack
  \/ HostWrite

SpecHost == InitHost /\ [][NextHost]_vars

(***************************************************************************)
(* Vocabulary of the properties.                                           *)
(***************************************************************************)
\* the verification events that carry a report
reportEvents ==
  { i \in 1..Len(mht.events) :
      mht.events[i].what \in {"startTrack", "continueTrack", "falseAlarm"} }

eventKinds == { mht.events[i].what : i \in 1..Len(mht.events) }

\* every G_HYPO of the engine, as <<group, position>>
gHypos ==
  { <<i, j>> \in (1..Len(mht.m_groupList)) \X (1..mht.nextNode) :
      j <= Len(mht.m_groupList[i].m_gHypoList) }

gHypoAt(p) == mht.m_groupList[p[1]].m_gHypoList[p[2]]

\* the trees of a group: those of the T_HYPOs its G_HYPOs postulate
treesOfGroup(group) ==
  { mht.nodes[n].m_tree :
      n \in UNION { Range(group.m_gHypoList[j].links) :
                      j \in 1..Len(group.m_gHypoList) } }

reportsOfGroup(group) == reportsOfTrees(mht, treesOfGroup(group))

liveTrees == { i \in 1..Len(mht.m_tTreeList) : mht.m_tTreeList[i].root # NoNode }

\* depth of the i-th tree: from the time stamp of the root to the latest
\* time stamp in the tree
treeDepth(i) ==
  LET root == mht.m_tTreeList[i].root
      stamps == { mht.nodes[n].m_timeStamp : n \in subtree(mht.nodes, root) }
  IN (CHOOSE t \in stamps : \A u \in stamps : u <= t) - mht.nodes[root].m_timeStamp

scanReturned == lastOp = "scan" /\ pc = "idle"

(***************************************************************************)
(* Properties.                                                             *)
(***************************************************************************)
\* C1: whatever addReports/scan calls were made, and after clear(), no
\* report is carried by more than one emitted verification event (a track
\* START or CONTINUE, or a false alarm): each report goes to at most one track.
C1_ReportVerifiedAtMostOnce ==
  \A i, j \in reportEvents :
    mht.events[i].report = mht.events[j].report => i = j

\* reached: clear() has run and the output holds a track start, a track
\* continuation and a false alarm
C1_Witness ==
  /\ pc = "done"
  /\ {"startTrack", "continueTrack", "falseAlarm"} \subseteq eventKinds

\* C2: after a scan, the leaves one G_HYPO postulates refer to different
\* reports: no two of them share a report.
C2_GHypoLeavesCompatible ==
  pc = "idle" =>
    \A p \in gHypos :
      \A a, b \in 1..Len(gHypoAt(p).links) :
        LET na == mht.nodes[gHypoAt(p).links[a]]
            nb == mht.nodes[gHypoAt(p).links[b]]
        IN (hasReport(na) /\ na.report = nb.report) => a = b

\* reached: scan() returned and a G_HYPO postulates two leaves that carry
\* reports, in a group where another tree could have taken the same report
C2_Witness ==
  /\ scanReturned /\ ret = 1
  /\ \E p \in gHypos :
       \E a, b \in 1..Len(gHypoAt(p).links) :
         /\ a # b
         /\ hasReport(mht.nodes[gHypoAt(p).links[a]])
         /\ hasReport(mht.nodes[gHypoAt(p).links[b]])

\* C3: after the group formation of a scan (relabel, split, merge), two
\* distinct groups never share a report: the reports the trees of one refer
\* to are disjoint from those of the other.
C3_GroupsShareNoReport ==
  pc = "grouped" =>
    \A i, j \in 1..Len(mht.m_groupList) :
      i # j => reportsOfGroup(mht.m_groupList[i])
                 \cap reportsOfGroup(mht.m_groupList[j]) = {}

\* reached: after group formation there are two groups with reports, one
\* of them made of several trees
C3_Witness ==
  /\ pc = "grouped"
  /\ \E i, j \in 1..Len(mht.m_groupList) :
       /\ i # j
       /\ Cardinality(treesOfGroup(mht.m_groupList[i])) > 1
       /\ reportsOfGroup(mht.m_groupList[i]) # {}
       /\ reportsOfGroup(mht.m_groupList[j]) # {}

\* C4: N-scanback pruning: after the assignment step of a scan, every tree
\* deeper than maxDepth has a root with exactly one child (the one on the
\* path to the leaf the first new G_HYPO chose).
C4_NScanBack ==
  pc = "hypothesized" =>
    \A i \in liveTrees :
      treeDepth(i) > args.maxDepth =>
        hasOneChild(mht.nodes[mht.m_tTreeList[i].root])

\* reached: after the assignment step a tree is deeper than maxDepth and
\* still branches below its root
C4_Witness ==
  /\ pc = "hypothesized"
  /\ \E i \in liveTrees :
       /\ treeDepth(i) > args.maxDepth
       /\ Cardinality(subtree(mht.nodes, mht.m_tTreeList[i].root))
            > treeDepth(i) + 1

\* C5: k-best pruning: after the merging of groups and after the per-group
\* prune-and-hypothesize step of a scan, no group has more than maxGHypos
\* G_HYPOs.
C5_KBest ==
  pc \in {"grouped", "hypothesized"} =>
    \A i \in 1..Len(mht.m_groupList) :
      Len(mht.m_groupList[i].m_gHypoList) <= args.maxGHypos

\* reached: a group merged from several trees holds exactly maxGHypos > 1
\* G_HYPOs
C5_Witness ==
  /\ pc = "grouped"
  /\ args.maxGHypos > 1
  /\ \E i \in 1..Len(mht.m_groupList) :
       /\ Cardinality(treesOfGroup(mht.m_groupList[i])) > 1
       /\ Len(mht.m_groupList[i].m_gHypoList) = args.maxGHypos

\* C6: ratio pruning: after the per-group prune-and-hypothesize step, every
\* G_HYPO of a group has a log-likelihood of at least that of the group's
\* best G_HYPO plus log( minGHypoRatio ).
C6_RatioPruning ==
  pc = "hypothesized" =>
    \A p \in gHypos, q \in gHypos :
      p[1] = q[1] =>
        gHypoAt(p).m_logLikelihood
          >= gHypoAt(q).m_logLikelihood + log(args.minGHypoRatio)

\* reached: after the step a group holds G_HYPOs of different likelihood
C6_Witness ==
  /\ pc = "hypothesized"
  /\ \E p \in gHypos, q \in gHypos :
       /\ p[1] = q[1]
       /\ gHypoAt(p).m_logLikelihood < gHypoAt(q).m_logLikelihood

C8_Fifo ==
  /\ [](/\ measured = SubSeq(added, 1, Len(measured))
        /\ mht.m_reportsQueue = SubSeq(added, Len(measured) + 1, Len(added)))
  /\ [][added' # added =>
          mht' = [mht EXCEPT !.m_reportsQueue = Append(@, added'[Len(added')])]]_vars

\* reached: two different batches were processed while a third one waited
C8_Witness ==
  /\ Len(measured) = 2
  /\ measured[1] # measured[2]
  /\ Len(mht.m_reportsQueue) = 1
  /\ mht.m_reportsQueue[1] # measured[2]

\* C9: scan() returns 1 whenever track trees are active when it returns,
\* and every scan() call that took a batch off the queue returns 1.
C9_ScanReturnValue ==
  /\ []((scanReturned /\ isInUse(mht)) => ret = 1)
  /\ [][(pc \in {"measured", "hypothesized"} /\ pc' = "idle") => ret' = 1]_vars

\* C10: getCurrentTime() is the number of calls made to scan() so far,
\* the calls made while the queue was empty included.
C10_TimeCountsScanCalls ==
  pc = "idle" => getCurrentTime(mht) = scanCalls

\* C11: verify() is called only on nodes whose m_mustVerify is 1, and never
\* on a ROOT or a DUMMY node (whose verify() is T_HYPO's, which asserts):
\* this holds of every call made by scan() and by clear().
C11_VerifyOnlyIfMustVerify ==
  \A i \in 1..Len(mht.events) :
    /\ mht.events[i].mustVerify = 1
    /\ mht.events[i].kind \notin {"ROOT", "DUMMY"}
    /\ mht.events[i].what # "assert"

\* clear() is done, and a track was started: the ROOT above its START node
\* was taken off the tree without being verified
C11_Witness ==
  /\ pc = "done"
  /\ \E i \in 1..Len(mht.events) : mht.events[i].what = "startTrack"

\* C12: in every scan() that takes a batch off the queue,
\* measureAndValidate() gives every T_HYPO of m_activeTHypoList at least one
\* child, those whose m_endsTrack is 1 included, and also when the batch
\* is empty.
C12_EveryActiveTHypoGetsAChild ==
  pc = "measured" =>
    \A n \in Range(mht.m_activeTHypoList) : ~isLeaf(mht.nodes[n])

\* an empty batch was measured while a T_HYPO that ends its track was active
C12_Witness ==
  /\ pc = "measured"
  /\ measured[Len(measured)].list = <<>>
  /\ \E n \in Range(mht.m_activeTHypoList) :
       mht.nodes[n].m_endsTrack = 1 /\ ~isLeaf(mht.nodes[n])

\* C13: new tracks are started in the first scan only: in a scan() made
\* after the first one has completed, measureAndValidate() makes no START
\* node, so the tree of a new report holds no hypothesis of a new track.
C13_StartOnlyInFirstScan ==
  [][(pc = "idle" /\ pc' = "measured" /\ ~mht.m_isFirstScan)
       => \A n \in DOMAIN mht'.nodes \ DOMAIN mht.nodes :
            mht'.nodes[n].kind # "START"]_vars

\* C14: once clear() has returned, every corner of every batch that scan()
\* processed is in the collected output: its report was given to a track
\* (startTrack, continueTrack) or to the false alarms.
C14_EveryCornerInOutput ==
  pc = "done" =>
    \A r \in 1..(mht.nextReport - 1) :
      \E i \in reportEvents : mht.events[i].report = r

\* clear() has returned after batches with corners were processed, and the
\* output holds both track elements and false alarms
C14_Witness ==
  /\ pc = "done"
  /\ mht.nextReport > 3
  /\ {"continueTrack", "falseAlarm"} \subseteq eventKinds

\* C15: whenever scan() makes a verification callback (startTrack,
\* continueTrack, skipTrack, endTrack, falseAlarm), the current time of the
\* MHT is at most maxDepth ahead of the time stamp of the verified node.
C15_VerifiedWithinMaxDepth ==
  pc # "done" =>
    \A i \in 1..Len(mht.events) :
      mht.events[i].now - mht.events[i].t <= args.maxDepth

\* what the step from its parent to node n adds to the log-likelihood
stepLogLikelihood(n) ==
  LET node == mht.nodes[n]
      up == mht.nodes[node.parent].m_state
  IN CASE node.kind = "CONTINUE" ->
            getContinueLogLikelihood(up) + getDetectLogLikelihood(up)
              + node.m_state.ll
       [] node.kind = "SKIP" ->
            getContinueLogLikelihood(up) + getSkipLogLikelihood(up)
              + node.m_state.ll
       [] node.kind = "END" ->
            getSkipLogLikelihood(up) + getEndLogLikelihood(up)
       [] OTHER -> 0

\* the sum of the steps along the path from the root of its tree to node n;
\* a START or FALARM node begins the sum, the root carries what was summed
\* above it
RECURSIVE pathLogLikelihood(_)
pathLogLikelihood(n) ==
  LET node == mht.nodes[n] IN
  IF node.kind = "START" THEN node.m_state.ll
  ELSE IF node.kind = "FALARM" THEN FalarmLogLikelihood
  ELSE IF node.kind = "ROOT" THEN 0
  ELSE IF node.parent = NoNode THEN node.m_logLikelihood
  ELSE pathLogLikelihood(node.parent) + stepLogLikelihood(n)

\* C16: the log-likelihood of every node (so of every leaf) is the sum of
\* the steps along the path from the root to it: START has the likelihood of
\* its state, CONTINUE adds continue + detect + state, SKIP adds continue +
\* skip + state, END adds its end contribution, DUMMY adds nothing; and the
\* value a node was constructed with never changes.
C16_LikelihoodIsPathSum ==
  /\ [](\A n \in DOMAIN mht.nodes :
          mht.nodes[n].m_logLikelihood = pathLogLikelihood(n))
  /\ [][\A n \in DOMAIN mht.nodes \cap DOMAIN mht'.nodes :
          mht'.nodes[n].m_logLikelihood = mht.nodes[n].m_logLikelihood]_vars

\* a tree holds a CONTINUE leaf two steps below its root, and an END leaf
\* below a SKIP node
C16_Witness ==
  /\ \E n \in DOMAIN mht.nodes :
       /\ mht.nodes[n].kind = "CONTINUE" /\ isLeaf(mht.nodes[n])
       /\ mht.nodes[n].parent # NoNode
       /\ mht.nodes[mht.nodes[n].parent].parent # NoNode
  /\ \E n \in DOMAIN mht.nodes :
       /\ mht.nodes[n].kind = "END"
       /\ mht.nodes[n].parent # NoNode
       /\ mht.nodes[mht.nodes[n].parent].kind = "SKIP"

\* the T_HYPOs of the track trees of m_tTreeList
treeNodes ==
  UNION { subtree(mht.nodes, mht.m_tTreeList[i].root) : i \in liveTrees }

\* the T_HYPOs of the track trees that refer to report r
usersOf(r) == { n \in treeNodes : mht.nodes[n].report = r.id }

\* C17 as stated: after every scan, every report still on m_oldReportList
\* is referred to by at least one leaf of some track tree.
C17_LiveReportHasLeaf ==
  scanReturned =>
    \A r \in Range(mht.m_oldReportList) :
      \E n \in usersOf(r) : isLeaf(mht.nodes[n])

\* C17 amended: after every scan, every report still on m_oldReportList is
\* referred to by at least one T_HYPO (leaf or not) of some track tree.
C17_LiveReportHasTHypo ==
  scanReturned =>
    \A r \in Range(mht.m_oldReportList) : usersOf(r) # {}

\* a scan has returned, a report has been taken off the list, and a report
\* still on it is referred to by T_HYPOs that are not leaves only
C17_Witness ==
  /\ scanReturned
  /\ Len(mht.m_oldReportList) < mht.nextReport - 1
  /\ \E r \in Range(mht.m_oldReportList) :
       usersOf(r) # {} /\ \A n \in usersOf(r) : ~isLeaf(mht.nodes[n])

\* the T_HYPOs that removeUnusedTHypos() takes away in the state reached
\* after pruneAndHypothesize()
reclaimed == DOMAIN mht.nodes \ DOMAIN removeUnusedTHypos(mht).nodes

\* C18: after the reclaim step of a scan every leaf left in a tree is
\* postulated by at least one G_HYPO, and the step removed no T_HYPO that a
\* G_HYPO postulates or that keeps a child: a removed T_HYPO is postulated
\* by none, and all its children were removed with it.
C18_ReclaimKeepsWhatIsInUse ==
  /\ pc = "hypothesized" =>
       LET m1 == removeUnusedTHypos(mht) IN
       /\ \A n \in DOMAIN m1.nodes :
            isLeaf(m1.nodes[n]) => isPostulated(m1, n)
       /\ \A n \in reclaimed :
            /\ ~isPostulated(mht, n)
            /\ Range(mht.nodes[n].kids) \subseteq reclaimed
  /\ (scanReturned /\ ret = 1) =>
       \A n \in treeNodes : isLeaf(mht.nodes[n]) => isPostulated(mht, n)

\* the reclaim step is about to remove an inner T_HYPO, all of whose
\* children go as not postulated, while the T_HYPO above it stays
C18_Witness ==
  /\ pc = "hypothesized"
  /\ \E n \in reclaimed :
       /\ ~isLeaf(mht.nodes[n])
       /\ mht.nodes[n].parent \notin reclaimed

\* the track ids of the trees of m_tTreeList
trackIds == { mht.m_tTreeList[i].m_id : i \in 1..Len(mht.m_tTreeList) }

\* C19: track ids are unique and grow: the trees of m_tTreeList, which are
\* in the order they were installed, have strictly growing ids below
\* m_lastTrackIdUsed; m_lastTrackIdUsed never goes down; and a tree that is
\* newly installed has an id that is not below the m_lastTrackIdUsed of
\* before, so above the id of every tree installed earlier, removed or not.
C19_TrackIdsUniqueAndGrowing ==
  /\ [](\A i, j \in 1..Len(mht.m_tTreeList) :
          /\ mht.m_tTreeList[i].m_id < mht.m_lastTrackIdUsed
          /\ i < j => mht.m_tTreeList[i].m_id < mht.m_tTreeList[j].m_id)
  /\ [][/\ mht'.m_lastTrackIdUsed >= mht.m_lastTrackIdUsed
        /\ \A j \in 1..Len(mht'.m_tTreeList) :
             mht'.m_tTreeList[j].m_id \notin trackIds
               => mht'.m_tTreeList[j].m_id >= mht.m_lastTrackIdUsed]_vars

\* trees have been removed, and a tree installed after them is in the list
C19_Witness ==
  /\ mht.m_tTreeList # <<>>
  /\ Len(mht.m_tTreeList) < mht.m_lastTrackIdUsed
  /\ \E i \in 1..Len(mht.m_tTreeList) :
       mht.m_tTreeList[i].m_id >= 2 /\ mht.m_tTreeList[i].m_id > i

\* the T_HYPOs on the paths clear() retains: a leaf that the first G_HYPO
\* of its group postulates, and the T_HYPOs above it
retainedPath ==
  { n \in DOMAIN mht.nodes :
      \E i \in 1..Len(mht.m_groupList) :
        /\ mht.m_groupList[i].m_gHypoList # <<>>
        /\ \E l \in Range(mht.m_groupList[i].m_gHypoList[1].links) :
             l \in subtree(mht.nodes, n) }

\* C20: clear() drains and verifies all the trees that remain: when it has
\* returned no track tree holds a T_HYPO any more, and every T_HYPO with
\* m_mustVerify set on the retained path of a tree has been verified.
C20_ClearDrainsAndVerifies ==
  /\ [](pc = "done" =>
          /\ DOMAIN mht.nodes = {}
          /\ \A i \in 1..Len(mht.m_tTreeList) : mht.m_tTreeList[i].root = NoNode)
  /\ [][pc' = "done" =>
          \A n \in retainedPath :
            mht.nodes[n].m_mustVerify = 1 =>
              \E e \in (Len(mht.events) + 1)..Len(mht'.events) :
                mht'.events[e].node = n]_vars

\* clear() has returned; it verified a T_HYPO made by the last scan (a leaf
\* that does not end its track, which only clear() verifies) after the
\* T_HYPO above it
C20_Witness ==
  /\ pc = "done"
  /\ \E e \in 2..Len(mht.events) :
       /\ mht.events[e].kind \in ContinueKinds
       /\ mht.events[e].t = mht.m_currentTime - 1
       /\ mht.events[e].now = mht.m_currentTime
       /\ mht.events[e - 1].now = mht.m_currentTime
       /\ mht.events[e].id = mht.events[e - 1].id
       /\ mht.events[e].t > mht.events[e - 1].t

\* C21: the interval a state's derived quantities (F, Q, the prediction)
\* are computed with is the time delta of the batch of the scan that
\* computes them: a T_HYPO with time stamp t is set up by the scan of batch
\* t + 2, so its m_ds is that batch's m_dT.
C21_SetupUsesBatchTimeDelta ==
  \A n \in DOMAIN mht.nodes :
    mht.nodes[n].m_state.hasBeenSetup =>
      mht.nodes[n].m_state.ds = measured[mht.nodes[n].m_timeStamp + 2].m_dT

(***************************************************************************)
(* The output collector of CORNER_TRACK_MHT and the track file.            *)
(***************************************************************************)
CORNER_TRACK(id) == [id |-> id, list |-> <<>>]

CORNER_TRACK_ELEMENT(hasRep, cornerID, time) ==
  [hasReport |-> hasRep, cornerID |-> cornerID, time |-> time]

FALARM(cornerID, frameNo) == [cornerID |-> cornerID, frameNo |-> frameNo]

\* variant: a new track at the back, whatever tracks there are
findTrackAnew(tracks, id) ==
  [tracks |-> Append(tracks, CORNER_TRACK(id)), at |-> Len(tracks) + 1]

\* CORNER_TRACK_MHT::findTrack(): the position of the track with the given
\* id, a new track being put at the back when there is none
findTrack(tracks, id) ==
  IF \E i \in 1..Len(tracks) : tracks[i].id = id
  THEN [tracks |-> tracks,
        at |-> CHOOSE i \in 1..Len(tracks) : tracks[i].id = id]
  ELSE [tracks |-> Append(tracks, CORNER_TRACK(id)), at |-> Len(tracks) + 1]

\* CORNER_TRACK_MHT::verify( trackId, ... )
trackVerify(tracks, trackId, element) ==
  LET f == findTrack(tracks, trackId)
  IN [f.tracks EXCEPT ![f.at].list = Append(@, element)]

\* CORNER_TRACK_MHT::saveFalarm( report )
saveFalarm(falarms, cornerID, frameNo) ==
  Append(falarms, FALARM(cornerID, frameNo))

\* the callbacks of CORNER_TRACK_MHT, applied to the events in their order
RECURSIVE collect(_, _)
collect(out, events) ==
  IF events = <<>> THEN out
  ELSE LET e == Head(events)
           next ==
             CASE e.what \in {"startTrack", "continueTrack"} ->
                    [out EXCEPT !.cornerTracks = trackVerify(@, e.id,
                       CORNER_TRACK_ELEMENT(TRUE, e.report, e.t))]
               [] e.what = "skipTrack" ->
                    [out EXCEPT !.cornerTracks = trackVerify(@, e.id,
                       CORNER_TRACK_ELEMENT(FALSE, 0, e.t))]
               [] e.what = "falseAlarm" ->
                    [out EXCEPT !.falarms = saveFalarm(@, e.report, e.t)]
               [] OTHER -> out
       IN collect(next, Tail(events))

\* m_cornerTracks and m_falarms as the callbacks have left them
collected == collect([cornerTracks |-> <<>>, falarms |-> <<>>], mht.events)

\* the lines writeCornerTrackFile() writes for the elements of a track
elementLines(list) ==
  [k \in 1..Len(list) |->
     << IF list[k].hasReport THEN "M" ELSE "S",
        list[k].cornerID, list[k].time >>]

\* the loop over the tracks: "id++ size", then the element lines
RECURSIVE trackLines(_, _)
trackLines(tracks, id) ==
  IF tracks = <<>> THEN <<>>
  ELSE << <<id, Len(Head(tracks).list)>> >>
         \o elementLines(Head(tracks).list)
         \o trackLines(Tail(tracks), id + 1)

falarmLines(falarms) ==
  [k \in 1..Len(falarms) |-> << falarms[k].cornerID, falarms[k].frameNo >>]

\* writeCornerTrackFile(): the lines of the file after the comment block
writeCornerTrackFile(cornerTracks, falarms) ==
  << <<Len(cornerTracks)>>, <<Len(falarms)>> >>
    \o trackLines(cornerTracks, 0) \o falarmLines(falarms)

\* reading the file back: n tracks, each a header line "track_id
\* track_length" and track_length element lines, then the false alarms
RECURSIVE readTracks(_, _)
readTracks(lines, n) ==
  IF n = 0 THEN [tracks |-> <<>>, rest |-> lines]
  ELSE LET len == lines[1][2]
           list == [k \in 1..len |->
                      CORNER_TRACK_ELEMENT(lines[1 + k][1] = "M",
                                           lines[1 + k][2], lines[1 + k][3])]
           more == readTracks(SubSeq(lines, len + 2, Len(lines)), n - 1)
       IN [tracks |-> << [id |-> lines[1][1], list |-> list] >> \o more.tracks,
           rest |-> more.rest]

readCornerTrackFile(lines) ==
  LET r == readTracks(SubSeq(lines, 3, Len(lines)), lines[1][1])
  IN [cornerTracks |-> r.tracks,
      falarms |-> [k \in 1..lines[2][1] |-> FALARM(r.rest[k][1], r.rest[k][2])]]

\* C22: writing the track list and the false-alarm list with
\* writeCornerTrackFile() and reading the file back gives the lists again:
\* the id on the header line of a track is the id of the track, and the
\* length on it is the number of element lines that follow.
C22_TrackFileRoundTrip ==
  readCornerTrackFile(
      writeCornerTrackFile(collected.cornerTracks, collected.falarms))
    = collected

\* C23: the program ends with 1 for help or syntax, with -1 for every
\* argument error and every file that cannot be opened (parameter, control,
\* frame or output file), with 0 otherwise; and an error ends it before
\* any engine was created.
C23_HostExitCodes ==
  LET argumentError ==
        \/ host.argv.opt \in {"unknown", "missing"}
        \/ ~(host.argv.output /\ host.argv.input /\ host.argv.param
              /\ host.argv.dir)
      ioError ==
        ~(host.files.param /\ host.files.control /\ host.files.frame
            /\ host.files.output)
  IN  host.pc = "exited" =>
        /\ host.exit = IF host.argv.opt \in {"syntax", "help"} THEN "1"
                       ELSE IF argumentError \/ ioError THEN "-1"
                       ELSE "0"
        /\ host.exit # "0" => host.engine = "none"

\* C24: verify-and-pop.  After verifyTTreeRoots() no tree has a root
\* that has exactly one child and does not end the track, and when scan()
\* returns no tree on the tree list has a root that ends the track.
C24_RootsPoppedAndEndedTreesGone ==
  /\ pc = "hypothesized" =>
        LET m == verifyTTreeRoots(removeUnusedTHypos(mht)) IN
        \A i \in 1..Len(m.m_tTreeList) :
          LET root == m.m_tTreeList[i].root IN
          root # NoNode =>
            ~(hasOneChild(m.nodes[root]) /\ m.nodes[root].m_endsTrack = 0)
  /\ scanReturned =>
        \A i \in 1..Len(mht.m_tTreeList) :
          LET root == mht.m_tTreeList[i].root IN
          /\ root # NoNode
          /\ mht.nodes[root].m_endsTrack = 0
          /\ ~hasOneChild(mht.nodes[root])

\* a scan that popped a root (a tree's root is no longer its ROOT node)
\* and removed a tree whose root ended the track has returned
C24_Witness ==
  /\ scanReturned
  /\ \E i \in 1..Len(mht.m_tTreeList) :
        mht.nodes[mht.m_tTreeList[i].root].kind # "ROOT"
  /\ \E k \in 1..Len(mht.events) :
        /\ mht.events[k].kind \in {"FALARM", "END"}
        /\ mht.events[k].id \notin trackIds

\* C25: the flags of a node are fixed by its kind: m_endsTrack = 1 exactly
\* for DUMMY, FALARM and END, and m_mustVerify = 1 exactly for FALARM,
\* START, CONTINUE, SKIP and END.
C25_FlagsFixedByKind ==
  \A n \in DOMAIN mht.nodes :
    /\ mht.nodes[n].m_endsTrack =
          (IF mht.nodes[n].kind \in {"DUMMY", "FALARM", "END"} THEN 1 ELSE 0)
    /\ mht.nodes[n].m_mustVerify =
          (IF mht.nodes[n].kind \in {"FALARM", "START", "CONTINUE", "SKIP", "END"}
           THEN 1 ELSE 0)

\* nodes of all seven kinds exist at once
C25_Witness ==
  { mht.nodes[n].kind : n \in DOMAIN mht.nodes }
    = {"ROOT", "DUMMY", "FALARM", "START", "CONTINUE", "SKIP", "END"}

\* C26: ending is absorbing.  A node that ends the track has at most one
\* child; every descendant of it is a DUMMY that is linked to no report,
\* ends the track and has the log-likelihood of that node; and after the
\* measurement step of a scan every leaf that ends the track is a node of
\* this scan, that is, every older one has grown its child.
C26_EndingIsAbsorbing ==
  /\ \A n \in DOMAIN mht.nodes :
        mht.nodes[n].m_endsTrack = 1 =>
          /\ Len(mht.nodes[n].kids) <= 1
          /\ \A d \in subtree(mht.nodes, n) \ {n} :
                /\ mht.nodes[d].kind = "DUMMY"
                /\ mht.nodes[d].report = NoReport
                /\ mht.nodes[d].m_endsTrack = 1
                /\ mht.nodes[d].m_logLikelihood = mht.nodes[n].m_logLikelihood
  /\ pc = "measured" =>
        \A n \in DOMAIN mht.nodes :
          mht.nodes[n].m_endsTrack = 1 /\ isLeaf(mht.nodes[n]) =>
            mht.nodes[n].m_timeStamp = mht.m_currentTime - 1

\* after a measurement step a FALARM node, an END node and a DUMMY node
\* each have a DUMMY child
C26_Witness ==
  /\ pc = "measured"
  /\ \A kind \in {"FALARM", "END", "DUMMY"} :
        \E n \in DOMAIN mht.nodes :
          /\ mht.nodes[n].kind = kind
          /\ mht.nodes[n].m_logLikelihood # 0
          /\ Len(mht.nodes[n].kids) = 1

\* C27: the measurement step of a scan makes exactly one new tree for each
\* detection of the batch it dequeued.  The ROOT of the k-th new tree has
\* the time stamp m_currentTime - 1 (of the time before the increment); it
\* has exactly one DUMMY child, linked to no report, exactly one FALARM
\* child, linked to the report of the k-th detection, and otherwise only
\* START children linked to that report: two or more children in all.
C27_OneFreshTreePerDetection ==
  pc = "measured" =>
    LET corners == measured[Len(measured)].list
        trees == mht.m_tTreeList
        fresh == { i \in 1..Len(trees) :
                     /\ mht.nodes[trees[i].root].kind = "ROOT"
                     /\ mht.nodes[trees[i].root].m_timeStamp
                          = mht.m_currentTime - 2 }
        kidsOf(i, kind) == { c \in Range(mht.nodes[trees[i].root].kids) :
                               mht.nodes[c].kind = kind }
    IN /\ Len(mht.m_newReportList) = Len(corners)
       /\ fresh = (Len(trees) - Len(corners) + 1)..Len(trees)
       /\ \A k \in 1..Len(corners) :
            LET i == Len(trees) - Len(corners) + k
                report == mht.m_newReportList[k]
                kids == mht.nodes[trees[i].root].kids
            IN /\ report.x = corners[k].x /\ report.y = corners[k].y
               /\ Len(kids) >= 2
               /\ Cardinality(Range(kids)) = Len(kids)
               /\ Cardinality(kidsOf(i, "DUMMY")) = 1
               /\ Cardinality(kidsOf(i, "FALARM")) = 1
               /\ Range(kids) = kidsOf(i, "DUMMY") \cup kidsOf(i, "FALARM")
                                  \cup kidsOf(i, "START")
               /\ \A c \in Range(kids) :
                    mht.nodes[c].report =
                      (IF mht.nodes[c].kind = "DUMMY" THEN NoReport
                       ELSE report.id)

\* the second scan has measured a batch of two detections, with trees of
\* the first scan still on the list, and a new tree has a START child
C27_Witness ==
  /\ pc = "measured"
  /\ Len(measured) >= 2
  /\ Len(measured[Len(measured)].list) = 2
  /\ Len(mht.m_tTreeList) > 2
  /\ \E c \in DOMAIN mht.nodes :
        /\ mht.nodes[c].kind = "START"
        /\ mht.nodes[c].m_timeStamp = mht.m_currentTime - 1

\* C28: findGroupLabels() leaves no tree with the group id -1; two trees
\* that use a common report have the same group id, hence so do trees
\* joined by a chain of shared reports; and the trees of one group id
\* cannot be divided into two parts that share no report, so that trees
\* have the same id only if such a chain joins them (a tree that uses no
\* report has an id of its own).
C28_GroupLabelsAreSharingClasses ==
  pc = "measured" /\ mht.m_tTreeList # <<>> =>
    LET m == findGroupLabels(makeNewGroups(importNewReports(mht)))
        trees == m.m_tTreeList
        uses(i) == { m.nodes[n].report : n \in subtree(m.nodes, trees[i].root) }
                     \ {NoReport}
        class(i) == { j \in 1..Len(trees) : trees[j].m_groupId = trees[i].m_groupId }
    IN \A i \in 1..Len(trees) :
         /\ trees[i].m_groupId # -1
         /\ \A j \in 1..Len(trees) :
              uses(i) \cap uses(j) # {} => trees[j].m_groupId = trees[i].m_groupId
         /\ \A part \in SUBSET class(i) :
              part # {} /\ part # class(i) =>
                \E a \in part, b \in class(i) \ part : uses(a) \cap uses(b) # {}

\* trees are labelled of which one uses no report and two others have
\* the same group id without using a common report
C28_Witness ==
  /\ pc = "measured" /\ mht.m_tTreeList # <<>>
  /\ LET m == findGroupLabels(makeNewGroups(importNewReports(mht)))
         trees == m.m_tTreeList
         uses(i) == { m.nodes[n].report : n \in subtree(m.nodes, trees[i].root) }
                      \ {NoReport}
     IN /\ \E i \in 1..Len(trees) : uses(i) = {}
        /\ \E i, j \in 1..Len(trees) :
             /\ i # j
             /\ trees[i].m_groupId = trees[j].m_groupId
             /\ uses(i) # {} /\ uses(j) # {}
             /\ uses(i) \cap uses(j) = {}

\* C29: after mergeGroups() no two GROUPs on the group list have the same
\* group id, however many GROUPs had the same id before the merge and
\* wherever they were on the list.
C29_MergedGroupsHaveDistinctIds ==
  /\ pc = "grouped" =>
        \A i, j \in 1..Len(mht.m_groupList) :
          i # j => groupGetGroupId(mht, mht.m_groupList[i])
                     # groupGetGroupId(mht, mht.m_groupList[j])
  /\ pc = "measured" /\ mht.m_tTreeList # <<>> =>
        LET m == mergeGroups(splitGroups(findGroupLabels(
                   makeNewGroups(importNewReports(mht)))))
        IN \A i, j \in 1..Len(m.m_groupList) :
             i # j => groupGetGroupId(m, m.m_groupList[i])
                        # groupGetGroupId(m, m.m_groupList[j])

\* before the merge three GROUPs next to each other on the list have the
\* same group id, and a fourth GROUP has another
C29_Witness ==
  /\ pc = "measured" /\ mht.m_tTreeList # <<>>
  /\ LET m == splitGroups(findGroupLabels(makeNewGroups(importNewReports(mht))))
         id(i) == groupGetGroupId(m, m.m_groupList[i])
     IN /\ \E i \in 1..(Len(m.m_groupList) - 2) :
             id(i) = id(i + 1) /\ id(i) = id(i + 2)
        /\ \E i, j \in 1..Len(m.m_groupList) : id(i) # id(j)

\* C30: removeUnusedTTrees() removes a tree if and only if the tree is
\* empty, or its root ends the track, or no node of it must be verified
\* and every leaf of it ends the track; it removes the nodes of the trees
\* it removes and leaves the other trees as they are.  This holds where
\* scan() calls it, after verifyTTreeRoots(), and also for the tree lists
\* of every other state of the engine, in particular for the trees as
\* removeUnusedTHypos() leaves them, with their roots not yet verified.
C30_TreeRemovedIffUnused ==
  LET removesTheUnused(m) ==
        LET after == removeUnusedTTrees(m)
            nodesOf(tree) == IF tree.root = NoNode THEN {}
                             ELSE subtree(m.nodes, tree.root)
            unused(tree) ==
              \/ tree.root = NoNode
              \/ m.nodes[tree.root].m_endsTrack = 1
              \/ /\ \A n \in nodesOf(tree) : m.nodes[n].m_mustVerify = 0
                 /\ \A n \in nodesOf(tree) :
                      isLeaf(m.nodes[n]) => m.nodes[n].m_endsTrack = 1
            kept == { k \in 1..Len(m.m_tTreeList) : ~unused(m.m_tTreeList[k]) }
        IN /\ after.m_tTreeList =
                SeqFilter(m.m_tTreeList, { m.m_tTreeList[i] : i \in kept })
           /\ \A i \in 1..Len(m.m_tTreeList) :
                \A n \in nodesOf(m.m_tTreeList[i]) :
                  IF i \in kept
                  THEN n \in DOMAIN after.nodes /\ after.nodes[n] = m.nodes[n]
                  ELSE n \notin DOMAIN after.nodes
  IN /\ removesTheUnused(mht)
     /\ pc = "hypothesized" =>
          /\ removesTheUnused(removeUnusedTHypos(mht))
          /\ removesTheUnused(verifyTTreeRoots(removeUnusedTHypos(mht)))

\* the trees that removeUnusedTHypos() leaves include one that has no
\* node to verify and only leaves that end the track, and one whose root
\* does not end the track and that has a node to verify but only leaves
\* that end the track; and after verifyTTreeRoots() the root of a tree
\* ends the track
C30_Witness ==
  /\ pc = "hypothesized"
  /\ LET m == removeUnusedTHypos(mht)
         v == verifyTTreeRoots(m)
         allLeavesEnd(tree) ==
           /\ tree.root # NoNode
           /\ m.nodes[tree.root].m_endsTrack = 0
           /\ \A n \in subtree(m.nodes, tree.root) :
                isLeaf(m.nodes[n]) => m.nodes[n].m_endsTrack = 1
         verifies(tree) ==
           \E n \in subtree(m.nodes, tree.root) : m.nodes[n].m_mustVerify = 1
     IN /\ \E i \in 1..Len(m.m_tTreeList) :
             allLeavesEnd(m.m_tTreeList[i]) /\ ~verifies(m.m_tTreeList[i])
        /\ \E i \in 1..Len(m.m_tTreeList) :
             allLeavesEnd(m.m_tTreeList[i]) /\ verifies(m.m_tTreeList[i])
        /\ \E i \in 1..Len(v.m_tTreeList) :
             /\ v.m_tTreeList[i].root # NoNode
             /\ v.nodes[v.m_tTreeList[i].root].m_endsTrack = 1
        /\ Len(removeUnusedTTrees(v).m_tTreeList) > 0

\* C31: every scan() call that took a batch from the queue leaves the
\* first-scan flag false, and the flag never becomes true again.
C31_FlagClearedByDequeuingScan ==
  [][/\ pc \in {"measured", "hypothesized"} /\ pc' = "idle"
          => ~mht'.m_isFirstScan
     /\ ~mht.m_isFirstScan => ~mht'.m_isFirstScan]_vars

\* C31, amended: every scan() call that returns 1 leaves the first-scan
\* flag false, and the flag never becomes true again; a scan() call that
\* takes a batch and returns 0, because there is no tree, leaves the flag
\* as it is.
C31_FlagClearedByCompletedScan ==
  [][/\ pc = "hypothesized" /\ pc' = "idle"
          => ret' = 1 /\ ~mht'.m_isFirstScan
     /\ pc = "measured" /\ pc' = "idle"
          => ret' = 0 /\ mht'.m_isFirstScan = mht.m_isFirstScan
     /\ ~mht.m_isFirstScan => ~mht'.m_isFirstScan]_vars

\* a scan has returned 1 after an earlier scan took an empty batch and
\* returned 0, and the flag is false
C31_Witness ==
  /\ scanReturned /\ ret = 1
  /\ Len(measured) >= 2 /\ measured[1].list = <<>>
  /\ ~mht.m_isFirstScan

\* C32: gating.  For a state and a report, getNewState() gives no state
\* if and only if the distance of the report from the state's prediction
\* is greater than the greatest distance or the texture score is not
\* greater than the threshold, and otherwise a state that has skipped
\* nothing; without a report it gives a state that has skipped once more
\* than the state given; without a state it gives a state of a new track
\* that has skipped nothing.  Checked for the state of every node and
\* every report of the engine.
C32_Gating ==
  LET reports == Range(mht.m_oldReportList) \cup Range(mht.m_newReportList)
      states == { mht.nodes[n].m_state : n \in DOMAIN mht.nodes } \ {NoState}
  IN /\ \A s \in states, report \in reports :
          LET r == getNewState(0, s, TRUE, report, TRUE)
              d == (report.x - r.prev.x1) * (report.x - r.prev.x1)
                     + (report.y - r.prev.y1) * (report.y - r.prev.y1)
          IN IF d > MaxDistance \/ ~(getCorr(s, report) > IntensityThreshold)
             THEN r.new = NoState
             ELSE r.new.ok /\ r.new.numSkipped = 0
     /\ \A s \in states :
          LET r == getNewState(0, s, TRUE, NoReport, FALSE)
          IN r.new.ok /\ r.new.numSkipped = s.numSkipped + 1
     /\ \A report \in reports :
          LET r == getNewState(0, NoState, FALSE, report, TRUE)
          IN /\ r.new.ok /\ r.new.numSkipped = 0
             /\ r.new.x = report.x /\ r.new.y = report.y
             /\ r.new.dx = 0 /\ r.new.dy = 0

\* a state and three reports of the engine: one too far from the state's
\* prediction, one near enough but of another texture, and one that is
\* validated; and a state that has skipped
C32_Witness ==
  LET reports == Range(mht.m_oldReportList) \cup Range(mht.m_newReportList)
      states == { mht.nodes[n].m_state : n \in DOMAIN mht.nodes } \ {NoState}
      far(s, report) ==
        LET r == getNewState(0, s, TRUE, report, TRUE)
        IN (report.x - r.prev.x1) * (report.x - r.prev.x1)
             + (report.y - r.prev.y1) * (report.y - r.prev.y1) > MaxDistance
  IN /\ \E s \in states :
          /\ \E report \in reports : far(s, report)
          /\ \E report \in reports :
               ~far(s, report) /\ getCorr(s, report) <= IntensityThreshold
          /\ \E report \in reports :
               getNewState(0, s, TRUE, report, TRUE).new.ok
     /\ \E s \in states : s.numSkipped > 0

\* C33: lazy setup.  Once the derived block of a state has been computed
\* it stays consistent with the state: the cached prediction is F * x for
\* the mean x the state has now, at every later use of the state.
C33_CachedPredictionIsCurrent ==
  \A n \in DOMAIN mht.nodes :
    LET s == mht.nodes[n].m_state IN
    s.hasBeenSetup =>
      /\ s.x1 = s.x + s.ds * s.dx /\ s.dx1 = s.dx
      /\ s.y1 = s.y + s.ds * s.dy /\ s.dy1 = s.dy

\* C34: every verification of a START, CONTINUE or SKIP node appends
\* exactly one element to the element list of the track that has the id of
\* the node's tree, a track made at the back of the track list when the id
\* is new; it changes no other track and not the list of false alarms; and
\* no two collected tracks have the same id.
C34_VerifyAppendsToOneTrack ==
  LET start == [cornerTracks |-> <<>>, falarms |-> <<>>]
      ids(tracks) == { tracks[i].id : i \in 1..Len(tracks) }
  IN /\ \A k \in 1..Len(mht.events) :
          LET e == mht.events[k]
              before == collect(start, SubSeq(mht.events, 1, k - 1))
              after == collect(start, SubSeq(mht.events, 1, k))
              old == before.cornerTracks
              new == after.cornerTracks
          IN e.what \in {"startTrack", "continueTrack", "skipTrack"} =>
               /\ after.falarms = before.falarms
               /\ Len(new) = IF e.id \in ids(old) THEN Len(old) ELSE Len(old) + 1
               /\ \A i \in 1..Len(old) :
                    /\ new[i].id = old[i].id
                    /\ new[i].list = IF old[i].id = e.id
                                     THEN Append(old[i].list, new[i].list[Len(new[i].list)])
                                     ELSE old[i].list
               /\ e.id \notin ids(old) =>
                    new[Len(new)].id = e.id /\ Len(new[Len(new)].list) = 1
               /\ \A i \in 1..Len(new) :
                    new[i].id = e.id =>
                      LET last == new[i].list[Len(new[i].list)]
                      IN /\ last.time = e.t
                         /\ last.hasReport = (e.what # "skipTrack")
     /\ \A i, j \in 1..Len(collected.cornerTracks) :
          i # j => collected.cornerTracks[i].id # collected.cornerTracks[j].id

\* two tracks were collected, one of them with two elements or more and
\* verified again after the other was made, and a false alarm was saved
C34_Witness ==
  /\ Len(collected.cornerTracks) >= 2
  /\ Len(collected.falarms) >= 1
  /\ \E j, k \in 1..Len(mht.events) :
        /\ j < k
        /\ mht.events[j].what = "startTrack"
        /\ mht.events[k].what \in {"continueTrack", "skipTrack"}
        /\ mht.events[k].id # mht.events[j].id
        /\ \E h \in 1..(j - 1) : mht.events[h].id = mht.events[k].id
                                    /\ mht.events[h].what = "startTrack"

\* C35: after every scan() call that returns 1 the list of active T_HYPOs
\* holds exactly the leaves of the trees on the tree list, each of them
\* once: no node that was removed, and no node that has a child.
C35_ActiveListIsTheLeaves ==
  scanReturned /\ ret = 1 =>
    LET active == mht.m_activeTHypoList
        inTrees == UNION { subtree(mht.nodes, mht.m_tTreeList[i].root) :
                             i \in liveTrees }
    IN /\ Range(active) \subseteq DOMAIN mht.nodes
       /\ Range(active) = { n \in inTrees : isLeaf(mht.nodes[n]) }
       /\ Cardinality(Range(active)) = Len(active)

\* a scan has returned 1 after it removed a tree and pruned nodes, and left
\* trees with inner nodes and with more than one leaf
C35_Witness ==
  /\ scanReturned /\ ret = 1
  /\ Len(mht.m_activeTHypoList) >= 3
  /\ \E n \in DOMAIN mht.nodes : ~isLeaf(mht.nodes[n])
  /\ Len(mht.m_tTreeList) < mht.m_lastTrackIdUsed
  /\ Cardinality(DOMAIN mht.nodes) + 2 < mht.nextNode

C37_NodeVerifiedAtMostOnce ==
  \A i, j \in 1..Len(mht.events) :
    mht.events[i].node = mht.events[j].node => i = j

\* clear() has run after a scan that verified a root that ended its track
\* and a later scan that verified a root, and has verified a leaf itself
C37_Witness ==
  /\ pc = "done"
  /\ \E i, j, k \in 1..Len(mht.events) :
        /\ i < j /\ j < k
        /\ mht.events[i].kind \in {"FALARM", "END"}
        /\ mht.events[i].now < mht.events[j].now
        /\ mht.events[k].now = mht.m_currentTime
        /\ mht.events[k].t = mht.m_currentTime - 1

\* C38: after every scan() call that returns 1 no tree on the tree list
\* is deeper than maxDepth, whatever batches the scans were given.
C38_TreeDepthBounded ==
  scanReturned /\ ret = 1 =>
    \A i \in liveTrees : treeDepth(i) <= args.maxDepth

\* a scan has returned 1 and left a tree that is exactly maxDepth deep,
\* after the root above it was verified and taken off
C38_Witness ==
  /\ scanReturned /\ ret = 1
  /\ \E i \in liveTrees :
        /\ treeDepth(i) = args.maxDepth
        /\ \E k \in 1..Len(mht.events) :
             /\ mht.events[k].id = mht.m_tTreeList[i].m_id
             /\ mht.events[k].now = mht.m_currentTime

====
